---------------------------- MODULE Spec2Model ----------------------------
(***************************************************************************)
(* TrueClaim: the multi-engine claim audit pipeline.                       *)
(*                                                                         *)
(*   src/src/lib/engine/cross-modal-auditor.ts   severity cross-check      *)
(*   src/src/lib/engine/timeline-detective.ts    timeline conflicts        *)
(*   src/src/lib/engine/ghost-unbundle-hunter.ts ghost / unbundling        *)
(*   src/src/lib/engine/analyzer.ts              orchestrator + aggregator *)
(*   src/src/lib/megallm.ts                      narrative generator, types*)
(*   src/src/app/api/analyze/route.ts            POST /api/analyze         *)
(*                                                                         *)
(* Numbers are JavaScript numbers: exact rationals plus NaN and the two    *)
(* infinities.  Strings are the concrete texts of the model's pools; the   *)
(* string primitives the engines use on them (length, trim, toLowerCase +  *)
(* includes, split) are tabulated in StringTable, computed from the texts. *)
(* Time is counted in whole minutes since 2024-03-01T00:00.                *)
(* Two requests post the same batch, at clock readings of their own.      *)
(***************************************************************************)
EXTENDS Integers, Sequences, FiniteSets, TLC

VARIABLES
    cptDb,      \* the reference database handed to every analysis
    apiKey,     \* process.env.GEMINI_API_KEY is set
    now,        \* the wall clock, in minutes
    ticks,      \* how often the clock has advanced
    claims,     \* the batch of claims the requests post
    pc,         \* pc[p]: "idle" | "refused" | "awaiting" | "resolved"
    advisor,    \* advisor[p]: the locals of runXAIAdvisor, suspended at its await
    brief,      \* brief[p]: the generateMegaLLMBrief promise of request p
    xai,        \* xai[p]: the promise runXAIAdvisor returned
    result,     \* result[p]: what analyzeFullClaim returned
    response    \* response[p]: the HTTP response of the route

vars == <<cptDb, apiKey, now, ticks, claims, pc, advisor, brief, xai, result, response>>

-----------------------------------------------------------------------------
(* JavaScript numbers *)

RECURSIVE Gcd(_, _)
Gcd(a, b) == IF b = 0 THEN a ELSE Gcd(b, a % b)

AbsInt(n) == IF n < 0 THEN -n ELSE n

NaN  == [k |-> "nan",  n |-> 0, d |-> 1]
PInf == [k |-> "pinf", n |-> 0, d |-> 1]
NInf == [k |-> "ninf", n |-> 0, d |-> 1]

\* the rational n/d (d # 0) in lowest terms with a positive denominator
Q(n, d) ==
    LET g == Gcd(AbsInt(n), AbsInt(d))
        s == IF d < 0 THEN -1 ELSE 1
    IN  [k |-> "fin", n |-> (s * n) \div g, d |-> (s * d) \div g]

Num(i) == [k |-> "fin", n |-> i, d |-> 1]

IsFin(a) == a.k = "fin"
Sign(a) == CASE a.k = "pinf" -> 1
             [] a.k = "ninf" -> -1
             [] a.k = "nan"  -> 0
             [] OTHER -> IF a.n > 0 THEN 1 ELSE IF a.n < 0 THEN -1 ELSE 0

Neg(a) == CASE a.k = "fin"  -> [a EXCEPT !.n = -a.n]
            [] a.k = "pinf" -> NInf
            [] a.k = "ninf" -> PInf
            [] OTHER -> NaN

Add(a, b) ==
    CASE a.k = "nan" \/ b.k = "nan" -> NaN
      [] a.k = "fin" /\ b.k = "fin" -> Q(a.n * b.d + b.n * a.d, a.d * b.d)
      [] a.k = "fin" -> b
      [] b.k = "fin" -> a
      [] OTHER -> IF a.k = b.k THEN a ELSE NaN

Sub(a, b) == Add(a, Neg(b))

Mul(a, b) ==
    CASE a.k = "nan" \/ b.k = "nan" -> NaN
      [] a.k = "fin" /\ b.k = "fin" -> Q(a.n * b.n, a.d * b.d)
      [] OTHER -> LET s == Sign(a) * Sign(b)
                  IN  IF s = 0 THEN NaN ELSE IF s > 0 THEN PInf ELSE NInf

\* x / y; the divisors of the pipeline are sums of non-negative amounts, so a
\* zero divisor is +0
Div(a, b) ==
    CASE a.k = "nan" \/ b.k = "nan" -> NaN
      [] a.k = "fin" /\ b.k = "fin" ->
            IF b.n # 0 THEN Q(a.n * b.d, a.d * b.n)
            ELSE IF a.n = 0 THEN NaN ELSE IF a.n > 0 THEN PInf ELSE NInf
      [] a.k = "fin" -> Num(0)
      [] b.k = "fin" -> IF Sign(a) * (IF b.n < 0 THEN -1 ELSE 1) > 0 THEN PInf ELSE NInf
      [] OTHER -> NaN

\* a < b; every comparison with NaN is false
Lt(a, b) ==
    CASE a.k = "nan" \/ b.k = "nan" -> FALSE
      [] a.k = "fin" /\ b.k = "fin" -> a.n * b.d < b.n * a.d
      [] a.k = "ninf" -> b.k # "ninf"
      [] b.k = "pinf" -> a.k # "pinf"
      [] OTHER -> FALSE

Gt(a, b) == Lt(b, a)
Eq(a, b) == a.k # "nan" /\ b.k # "nan" /\ a = b
Ge(a, b) == Gt(a, b) \/ Eq(a, b)
Le(a, b) == Lt(a, b) \/ Eq(a, b)

MathMin(a, b) ==
    IF a.k = "nan" \/ b.k = "nan" THEN NaN ELSE IF Lt(b, a) THEN b ELSE a

MathMax(a, b) ==
    IF a.k = "nan" \/ b.k = "nan" THEN NaN ELSE IF Gt(b, a) THEN b ELSE a

MathAbs(a) == IF a.k = "fin" THEN [a EXCEPT !.n = AbsInt(a.n)]
              ELSE IF a.k = "nan" THEN NaN ELSE PInf

\* Math.round: the nearest integer, halves towards +Infinity
MathRound(a) == IF a.k = "fin" THEN Num((2 * a.n + a.d) \div (2 * a.d)) ELSE a

\* the truthiness of a number: 0 and NaN are falsy
Truthy(a) == a.k # "nan" /\ ~(a.k = "fin" /\ a.n = 0)

-----------------------------------------------------------------------------
(* Strings.  StringTable holds, for every text of the model, what the       *)
(* string primitives return on it: s.length, s.trim().length, the phrases   *)
(* of the engines' keyword tables and of the lexicon that are substrings of *)
(* s.toLowerCase(), and s.toLowerCase().split(/[\s,\-()\/]+/) restricted to *)
(* the pieces of three or more characters.                                  *)

StringTable ==
       ("" :>
        [length |-> 0, trimLength |-> 0, substrings |-> {},
         terms |-> <<>>])
    @@ ("Patient stable, mild discomfort, discharged" :>
        [length |-> 43, trimLength |-> 43, substrings |-> {"discharged", "discomfort", "for", "mild", "patient", "stable", "tab"},
         terms |-> <<"patient", "stable", "mild", "discomfort", "discharged">>])
    @@ ("Emergency: patient unstable, critical condition, resuscitation started in the emergency department." :>
        [length |-> 99, trimLength |-> 99, substrings |-> {"condition", "critical", "department", "department.", "emergency", "emergency department", "emergency:", "patient", "resuscitation", "stable", "started", "tab", "the", "unstable"},
         terms |-> <<"emergency:", "patient", "unstable", "critical", "condition", "resuscitation", "started", "the", "emergency", "department.">>])
    @@ ("X-ray of the right ankle, two views, shows no fracture; routine follow-up advised." :>
        [length |-> 82, trimLength |-> 82, substrings |-> {"advised.", "ankle", "follow", "follow-up", "fracture;", "ray", "right", "routine", "shows", "the", "two", "views", "x-ray"},
         terms |-> <<"ray", "the", "right", "ankle", "two", "views", "shows", "fracture;", "routine", "follow", "advised.">>])
    @@ ("No record found for this service." :>
        [length |-> 33, trimLength |-> 33, substrings |-> {"for", "found", "ice", "no record", "no record found", "record", "service.", "this"},
         terms |-> <<"record", "found", "for", "this", "service.">>])
    @@ ("Procedure performed as documented in chart." :>
        [length |-> 43, trimLength |-> 43, substrings |-> {"chart.", "documented", "for", "med", "performed", "procedure"},
         terms |-> <<"procedure", "performed", "documented", "chart.">>])
    @@ ("Seen in the department; severity mild, patient stable and discharged." :>
        [length |-> 69, trimLength |-> 69, substrings |-> {"and", "department", "discharged", "mild", "patient", "severity", "stable", "tab", "the"},
         terms |-> <<"seen", "the", "department;", "severity", "mild", "patient", "stable", "and", "discharged.">>])
    @@ ("Severe acute pain reported; analgesia given and observation continued." :>
        [length |-> 70, trimLength |-> 70, substrings |-> {"acute", "and", "severe"},
         terms |-> <<"severe", "acute", "pain", "reported;", "analgesia", "given", "and", "observation", "continued.">>])
    @@ ("MRI of the brain performed; findings stable." :>
        [length |-> 44, trimLength |-> 44, substrings |-> {"brain", "for", "med", "mri", "performed", "stable", "tab", "the"},
         terms |-> <<"mri", "the", "brain", "performed;", "findings", "stable.">>])
    @@ ("   " :>
        [length |-> 3, trimLength |-> 0, substrings |-> {},
         terms |-> <<>>])
    @@ ("Emergency department visit, high severity" :>
        [length |-> 41, trimLength |-> 41, substrings |-> {"department", "emergency", "emergency department", "high", "high severity", "severity", "visit"},
         terms |-> <<"emergency", "department", "visit", "high", "severity">>])
    @@ ("Emergency department visit, moderate severity" :>
        [length |-> 45, trimLength |-> 45, substrings |-> {"department", "emergency", "emergency department", "moderate", "severity", "visit"},
         terms |-> <<"emergency", "department", "visit", "moderate", "severity">>])
    @@ ("X-ray ankle, 2 views" :>
        [length |-> 20, trimLength |-> 20, substrings |-> {"ankle", "ray", "views", "x-ray"},
         terms |-> <<"ray", "ankle", "views">>])
    @@ ("MRI brain with and without contrast" :>
        [length |-> 35, trimLength |-> 35, substrings |-> {"and", "brain", "contrast", "mri", "mri brain", "with", "without"},
         terms |-> <<"mri", "brain", "with", "and", "without", "contrast">>])
    @@ ("Closed treatment of shoulder dislocation" :>
        [length |-> 40, trimLength |-> 40, substrings |-> {"closed", "dislocation", "shoulder", "treatment"},
         terms |-> <<"closed", "treatment", "shoulder", "dislocation">>])
    @@ ("Strapping of shoulder" :>
        [length |-> 21, trimLength |-> 21, substrings |-> {"shoulder", "strapping"},
         terms |-> <<"strapping", "shoulder">>])
    @@ ("Unlisted procedure" :>
        [length |-> 18, trimLength |-> 18, substrings |-> {"procedure", "unlisted"},
         terms |-> <<"unlisted", "procedure">>])
    @@ ("2024-03-01" :>
        [length |-> 10, trimLength |-> 10, substrings |-> {"2024"},
         terms |-> <<"2024">>])
    @@ ("2024-03-02" :>
        [length |-> 10, trimLength |-> 10, substrings |-> {"2024"},
         terms |-> <<"2024">>])
    @@ ("2024-03-03" :>
        [length |-> 10, trimLength |-> 10, substrings |-> {"2024"},
         terms |-> <<"2024">>])
    @@ ("2024-03-04" :>
        [length |-> 10, trimLength |-> 10, substrings |-> {"2024"},
         terms |-> <<"2024">>])
    @@ ("n/a" :>
        [length |-> 3, trimLength |-> 3, substrings |-> {},
         terms |-> <<>>])
    @@ ("09:00" :>
        [length |-> 5, trimLength |-> 5, substrings |-> {"09:00"},
         terms |-> <<"09:00">>])
    @@ ("10:00" :>
        [length |-> 5, trimLength |-> 5, substrings |-> {"10:00"},
         terms |-> <<"10:00">>])
    @@ ("10:20" :>
        [length |-> 5, trimLength |-> 5, substrings |-> {"10:20"},
         terms |-> <<"10:20">>])
    @@ ("10:45" :>
        [length |-> 5, trimLength |-> 5, substrings |-> {"10:45"},
         terms |-> <<"10:45">>])
    @@ ("12:00" :>
        [length |-> 5, trimLength |-> 5, substrings |-> {"12:00"},
         terms |-> <<"12:00">>])
    @@ ("14:00" :>
        [length |-> 5, trimLength |-> 5, substrings |-> {"14:00"},
         terms |-> <<"14:00">>])
    @@ ("16:00" :>
        [length |-> 5, trimLength |-> 5, substrings |-> {"16:00"},
         terms |-> <<"16:00">>])
    @@ ("18:30" :>
        [length |-> 5, trimLength |-> 5, substrings |-> {"18:30"},
         terms |-> <<"18:30">>])

StrLength(s) == StringTable[s].length
TrimLength(s) == StringTable[s].trimLength

\* s.toLowerCase().includes(kw)
Includes(s, kw) == kw \in StringTable[s].substrings

\* the elements of a sequence
Range(seq) == {seq[i] : i \in DOMAIN seq}

RECURSIVE SumInt(_)
SumInt(seq) == IF seq = <<>> THEN 0 ELSE Head(seq) + SumInt(Tail(seq))

RECURSIVE SumNum(_)
SumNum(seq) == IF seq = <<>> THEN Num(0) ELSE Add(Head(seq), SumNum(Tail(seq)))

RECURSIVE SumNumFrom(_, _)
SumNumFrom(acc, seq) ==
    IF seq = <<>> THEN acc ELSE SumNumFrom(Add(acc, Head(seq)), Tail(seq))

Map(seq, F(_)) == [i \in DOMAIN seq |-> F(seq[i])]

-----------------------------------------------------------------------------
(* The engines' constant tables *)

SEMANTIC_GROUPS ==
    <<
      [group |-> "mri", keywords |-> <<"mri", "magnetic resonance", "tesla", "t1-weighted", "t2-weighted", "flair", "stir", "mri brain", "axial", "sagittal", "coronal">>],
      [group |-> "xray", keywords |-> <<"x-ray", "xray", "radiograph", "film", "views", "ap ", "lateral">>],
      [group |-> "ct", keywords |-> <<"ct scan", "computed tomography", "cat scan">>],
      [group |-> "surgery", keywords |-> <<"surgery", "surgical", "incision", "excision", "resection", "operation", "operat">>],
      [group |-> "appendectomy", keywords |-> <<"appendix", "appendectomy", "appendiceal", "cecum">>],
      [group |-> "laparoscopy", keywords |-> <<"laparoscop", "trocar", "abdomen inflated", "scope", "minimally invasive">>],
      [group |-> "suture", keywords |-> <<"suture", "stitch", "closure", "wound closure", "closed with">>],
      [group |-> "physio", keywords |-> <<"physiotherapy", "physical therapy", "exercise", "rehabilitation", "rehab", "therapeutic exercise">>],
      [group |-> "pharmacy", keywords |-> <<"medication", "drug", "prescribed", "tablet", "capsule", "brace", "supplies", "tab", "rice", "ice", "compression", "ibuprofen", "mg ", "bd ", " x ">>],
      [group |-> "emergency", keywords |-> <<"emergency", "ed visit", "er visit", "trauma", "acute presentation", "triage", "resuscitation", "emergency department">>],
      [group |-> "brain", keywords |-> <<"brain", "cerebral", "cranial", "neurological", "head", "neuro", "mental status", "consciousness">>]
    >>

BODY_AREA_MAP ==
    <<
      [area |-> "ankle/foot", codes |-> {"73600", "73610", "73620", "73630"}, keywords |-> <<"ankle", "foot", "tarsal", "metatarsal">>],
      [area |-> "knee", codes |-> {"73560", "73721", "27447"}, keywords |-> <<"knee", "patellar", "tibial">>],
      [area |-> "hip", codes |-> {"73501", "73721"}, keywords |-> <<"hip", "femoral", "acetabulum">>],
      [area |-> "brain/head", codes |-> {"70553", "70551", "70552", "70540"}, keywords |-> <<"brain", "head", "cranial", "cerebral", "neurological">>],
      [area |-> "abdomen", codes |-> {"49320", "44950", "44970", "74177"}, keywords |-> <<"abdomen", "abdominal", "appendix", "laparoscop", "bowel">>],
      [area |-> "chest", codes |-> {"71046", "71275"}, keywords |-> <<"chest", "thorax", "pulmonary", "cardiac", "lung">>],
      [area |-> "spine", codes |-> {"72148", "72141"}, keywords |-> <<"spine", "spinal", "lumbar", "cervical", "vertebral">>],
      [area |-> "wrist/hand", codes |-> {"73100", "73110", "73120"}, keywords |-> <<"wrist", "hand", "carpal", "metacarpal">>],
      [area |-> "shoulder", codes |-> {"73221", "23472"}, keywords |-> <<"shoulder", "rotator", "acromial", "clavicle">>]
    >>

GENERIC_CATEGORIES == {"E&M", "Supplies", "Physical Therapy"}

BODY_AREA_KEYWORDS ==
    <<
      [area |-> "ankle", keywords |-> <<"ankle", "73600", "73610", "73620">>],
      [area |-> "brain", keywords |-> <<"brain", "cerebral", "cranial", "70553", "70551", "70552">>],
      [area |-> "abdomen", keywords |-> <<"abdomen", "abdominal", "appendix", "laparoscop", "49320", "44950", "44970">>],
      [area |-> "chest", keywords |-> <<"chest", "thorax", "pulmonary", "cardiac", "heart">>],
      [area |-> "spine", keywords |-> <<"spine", "spinal", "lumbar", "cervical", "thoracic">>],
      [area |-> "knee", keywords |-> <<"knee", "patellar", "73721", "73560">>],
      [area |-> "shoulder", keywords |-> <<"shoulder", "rotator", "acromial">>],
      [area |-> "hip", keywords |-> <<"hip", "femoral", "acetabular">>],
      [area |-> "wrist", keywords |-> <<"wrist", "carpal", "73100">>]
    >>

evidencePatterns ==
    <<
      [code |-> "99285", patterns |-> <<"emergency", "life threatening", "critical", "unstable", "code blue", "resuscitation">>],
      [code |-> "99284", patterns |-> <<"emergency", "high severity", "urgent", "acute">>],
      [code |-> "99283", patterns |-> <<"emergency", "moderate">>],
      [code |-> "73600", patterns |-> <<"x-ray", "xray", "x ray", "ankle", "radiograph">>],
      [code |-> "70553", patterns |-> <<"mri", "brain", "magnetic resonance", "contrast", "neurological">>],
      [code |-> "99070", patterns |-> <<"supplies", "brace", "material", "medication", "med", "ankle brace", "tab.", "tablet">>],
      [code |-> "99213", patterns |-> <<"office visit", "follow-up", "follow up", "outpatient", "review">>],
      [code |-> "99214", patterns |-> <<"office visit", "moderate complexity">>],
      [code |-> "49320", patterns |-> <<"laparoscop", "exploratory", "scope">>],
      [code |-> "44950", patterns |-> <<"appendectomy", "appendix">>],
      [code |-> "44970", patterns |-> <<"laparoscopic appendectomy">>],
      [code |-> "12001", patterns |-> <<"suture", "wound", "closure">>]
    >>

GenericTerms == {"the", "and", "with", "level", "visit", "established", "patient", "low", "high"}

\* minutes by CPT category
DEFAULT_DURATIONS ==
    [category \in {"E&M", "Critical Care", "Radiology", "Surgery", "Physical Therapy", "Supplies"} |->
        CASE category = "E&M" -> 30
          [] category = "Critical Care" -> 60
          [] category = "Radiology" -> 45
          [] category = "Surgery" -> 120
          [] category = "Physical Therapy" -> 30
          [] category = "Supplies" -> 10]

-----------------------------------------------------------------------------
(* Optional numbers (location_lat?, required_speed_kmh?) *)

Undefined == [some |-> FALSE, v |-> Num(0)]
Some(x) == [some |-> TRUE, v |-> x]

\* the truthiness of an optional number: undefined, 0 and NaN are falsy
OptTruthy(o) == o.some /\ Truthy(o.v)

-----------------------------------------------------------------------------
(* Dates.  An instant is a number of minutes since 2024-03-01T00:00; the    *)
(* ISO form of an instant is its date string with its minute of the day.    *)

IsoDates == <<"2024-03-01", "2024-03-02", "2024-03-03", "2024-03-04">>

ClockTimes ==
    ("09:00" :> 540) @@ ("10:00" :> 600) @@ ("10:20" :> 620) @@ ("10:45" :> 645) @@
    ("12:00" :> 720) @@ ("14:00" :> 840) @@ ("16:00" :> 960) @@ ("18:30" :> 1110)

\* Date.prototype.toISOString
toISOString(t) == [date |-> IsoDates[(t \div 1440) + 1], minute |-> t % 1440]

\* new Date(iso) of a string toISOString made
FromISOString(iso) ==
    ((CHOOSE i \in DOMAIN IsoDates : IsoDates[i] = iso.date) - 1) * 1440 + iso.minute

\* new Date(`${date}T${time}:00`).getTime(), -1 standing for NaN (Invalid Date)
DateOf(date, time) ==
    IF (\E i \in DOMAIN IsoDates : IsoDates[i] = date) /\ time \in DOMAIN ClockTimes
    THEN ((CHOOSE i \in DOMAIN IsoDates : IsoDates[i] = date) - 1) * 1440 + ClockTimes[time]
    ELSE -1

parseDateTime(date, time, clock) ==
    LET validDate == IF TrimLength(date) > 0 THEN date ELSE toISOString(clock).date
        validTime == IF TrimLength(time) > 0 THEN time ELSE "12:00"
        d == DateOf(validDate, validTime)
    IN  IF d = -1 THEN clock ELSE d

-----------------------------------------------------------------------------
(* Feature 2: Timeline Detective *)

\* the model's places lie on one meridian, where dLng = 0 and the haversine
\* formula a = sin^2(dLat/2), c = 2 atan2(sqrt a, sqrt(1 - a)) = |dLat| gives
\* R * |lat2 - lat1| * PI / 180; PI is taken as 355/113
haversineDistance(lat1, lng1, lat2, lng2) ==
    Mul(Num(6371), Mul(MathAbs(Sub(lat2, lat1)), Q(355, 113 * 180)))

\* the events named by the billing code instead of the claim id
claimsToEventsByCode(cl, db, clock) ==
    [i \in DOMAIN cl |->
        LET claim == cl[i]
            category == IF claim.cpt_code \in DOMAIN db.codes
                        THEN db.codes[claim.cpt_code].category ELSE "E&M"
            durationMinutes == IF category \in DOMAIN DEFAULT_DURATIONS
                               THEN DEFAULT_DURATIONS[category] ELSE 30
            startDate == parseDateTime(claim.date, claim.time, clock)
            endDate == startDate + durationMinutes
        IN  [claim_id |-> claim.cpt_code,
             start_time |-> toISOString(startDate),
             end_time |-> toISOString(endDate),
             department |-> claim.department,
             procedure |-> claim.cpt_description,
             location_lat |-> claim.location_lat,
             location_lng |-> claim.location_lng]]

claimsToEvents(cl, db, clock) ==
    [i \in DOMAIN cl |->
        LET claim == cl[i]
            category == IF claim.cpt_code \in DOMAIN db.codes
                        THEN db.codes[claim.cpt_code].category ELSE "E&M"
            durationMinutes == IF category \in DOMAIN DEFAULT_DURATIONS
                               THEN DEFAULT_DURATIONS[category] ELSE 30
            startDate == parseDateTime(claim.date, claim.time, clock)
            endDate == startDate + durationMinutes
        IN  [claim_id |-> claim.claim_id,
             start_time |-> toISOString(startDate),
             end_time |-> toISOString(endDate),
             department |-> claim.department,
             procedure |-> claim.cpt_description,
             location_lat |-> claim.location_lat,
             location_lng |-> claim.location_lng]]

\* an overlap that counts intervals that touch as one minute
intervalsOverlapOrTouch(startA, endA, startB, endB) ==
    LET overlapStart == IF startA > startB THEN startA ELSE startB
        overlapEnd == IF endA < endB THEN endA ELSE endB
        overlapMs == overlapEnd - overlapStart
    IN  IF overlapMs > 0 THEN overlapMs ELSE IF overlapMs = 0 THEN 1 ELSE 0

\* minutes of overlap of [startA, endA] and [startB, endB], 0 when none
intervalsOverlap(startA, endA, startB, endB) ==
    LET overlapStart == IF startA > startB THEN startA ELSE startB
        overlapEnd == IF endA < endB THEN endA ELSE endB
        overlapMs == overlapEnd - overlapStart
    IN  IF overlapMs > 0 THEN overlapMs ELSE 0

\* distance > 4: the threshold a kilometre lower
FarApartFour(distance) == Gt(distance, Num(4))

\* distance > 5: more than 5 km apart
FarApart(distance) == Gt(distance, Num(5))

\* the body of the pair loop for events a and b: the overlap pushed, if any
PairOverlap(a, b) ==
    LET startA == FromISOString(a.start_time)
        startB == FromISOString(b.start_time)
        differentLocation == a.department # b.department
        located == /\ differentLocation
                   /\ OptTruthy(a.location_lat) /\ OptTruthy(a.location_lng)
                   /\ OptTruthy(b.location_lat) /\ OptTruthy(b.location_lng)
        requiredSpeed(distance, timeDiffHours) ==
            IF Gt(timeDiffHours, Num(0)) THEN Div(distance, timeDiffHours) ELSE PInf
        overlap(overlapMinutes, explanation, type, speed) ==
            [event_a |-> a,
             event_b |-> b,
             overlap_minutes |-> overlapMinutes,
             explanation |-> explanation,
             type |-> type,
             required_speed_kmh |-> speed]
        measured(overlapMinutes, distance, far) ==
            overlap(overlapMinutes,
                    IF far THEN "IMPOSSIBLE TRAVEL" ELSE "TIME OVERLAP",
                    IF far THEN "TELEPORTATION" ELSE "OVERLAP",
                    Some(requiredSpeed(distance, Q(AbsInt(startB - startA), 60))))
        atDistance(overlapMinutes, distance) ==
            measured(overlapMinutes, distance, FarApart(distance))
        push(overlapMinutes) ==
            IF overlapMinutes > 0
            THEN <<IF located
                   THEN atDistance(overlapMinutes,
                                 haversineDistance(a.location_lat.v, a.location_lng.v,
                                                   b.location_lat.v, b.location_lng.v))
                   ELSE overlap(overlapMinutes,
                                IF differentLocation THEN "TIME OVERLAP at different locations"
                                ELSE "SAME-LOCATION OVERLAP",
                                "OVERLAP", Undefined)>>
            ELSE <<>>
    IN  push(intervalsOverlap(startA, FromISOString(a.end_time),
                              startB, FromISOString(b.end_time)))

\* a scan that compares each event with the next one only
RECURSIVE OverlapsOfNeighbours(_, _, _)
OverlapsOfNeighbours(events, i, j) ==
    IF j > Len(events) THEN <<>>
    ELSE PairOverlap(events[i], events[j]) \o OverlapsOfNeighbours(events, i + 1, j + 1)

\* for (i ...) for (j = i + 1 ...): the overlaps of the pairs from (i, j) on
RECURSIVE OverlapsFrom(_, _, _)
OverlapsFrom(events, i, j) ==
    IF i > Len(events) THEN <<>>
    ELSE IF j > Len(events) THEN OverlapsFrom(events, i + 1, i + 2)
    ELSE PairOverlap(events[i], events[j]) \o OverlapsFrom(events, i, j + 1)

runTimelineDetective(cl, db, clock) ==
    LET riskLevel(overlaps, flaggedCount) ==
            IF \E k \in DOMAIN overlaps : overlaps[k].type = "TELEPORTATION" THEN "CRITICAL"
            ELSE IF flaggedCount >= 3 THEN "HIGH"
            ELSE IF flaggedCount >= 1 THEN "MEDIUM"
            ELSE "LOW"
        report(events, overlaps) ==
            [events |-> events,
             overlaps |-> overlaps,
             flagged_count |-> Len(overlaps),
             risk_level |-> riskLevel(overlaps, Len(overlaps))]
        detect(events) == report(events, OverlapsFrom(events, 1, 2))
    IN  detect(claimsToEvents(cl, db, clock))

-----------------------------------------------------------------------------
(* Feature 1: Cross-Modal Auditor *)

\* severityKeywords[level.toString()] || []
LexiconAt(severityKeywords, level) ==
    IF level \in DOMAIN severityKeywords THEN severityKeywords[level] ELSE <<>>

\* the keywords of levels hi, hi - 1, ..., lo found in the notes, in scan order,
\* each with its level
RECURSIVE FoundFrom(_, _, _, _)
FoundFrom(notes, severityKeywords, level, lo) ==
    IF level < lo THEN <<>>
    ELSE LET kws == LexiconAt(severityKeywords, level)
             hit == SelectSeq(kws, LAMBDA kw : Includes(notes, kw))
         IN  [i \in DOMAIN hit |-> [kw |-> hit[i], level |-> level]]
             \o FoundFrom(notes, severityKeywords, level - 1, lo)

MaxOf(S, least) == IF S = {} THEN least ELSE CHOOSE m \in S : \A x \in S : x <= m

extractNoteSeverity(notes, severityKeywords) ==
    LET lowWords == Range(LexiconAt(severityKeywords, 1)) \cup Range(LexiconAt(severityKeywords, 2))
        highWords == Range(LexiconAt(severityKeywords, 4)) \cup Range(LexiconAt(severityKeywords, 5))
        lowCount(found) == Cardinality({i \in DOMAIN found : found[i].kw \in lowWords})
        highCount(found) == Cardinality({i \in DOMAIN found : found[i].kw \in highWords})
        maxLevel(scanned, low, high) == IF low > high /\ scanned > 2 THEN 2 ELSE scanned
        analysis(found) ==
            [level |-> maxLevel(MaxOf({found[i].level : i \in DOMAIN found}, 1),
                                lowCount(found), highCount(found)),
             keywords |-> [i \in DOMAIN found |-> found[i].kw]]
    IN  IF Includes(notes, "no record found") \/ Includes(notes, "no clinical notes available")
        THEN [level |-> 0, keywords |-> <<"NO RECORD FOUND">>]
        ELSE analysis(FoundFrom(notes, severityKeywords, 5, 1))

PatternsOf(cptCode) ==
    LET hit == {i \in DOMAIN evidencePatterns : evidencePatterns[i].code = cptCode}
    IN  IF hit = {} THEN <<>> ELSE evidencePatterns[CHOOSE i \in hit : TRUE].patterns

checkServiceEvidence(cptCode, cptDescription, notes) ==
    LET descTerms == StringTable[cptDescription].terms
        matchCount == Cardinality({i \in DOMAIN descTerms :
                          descTerms[i] \notin GenericTerms /\ Includes(notes, descTerms[i])})
        patterns == PatternsOf(cptCode)
        patternMatches == Cardinality({i \in DOMAIN patterns : Includes(notes, patterns[i])})
    IN  matchCount >= 2 \/ patternMatches >= 1

\* the areas of BODY_AREA_KEYWORDS a claim counts for, in table order
AreasOfClaim(c) ==
    LET idx == SelectSeq([i \in DOMAIN BODY_AREA_KEYWORDS |-> i],
                   LAMBDA i : \E k \in DOMAIN BODY_AREA_KEYWORDS[i].keywords :
                       \/ Includes(c.cpt_description, BODY_AREA_KEYWORDS[i].keywords[k])
                       \/ c.cpt_code = BODY_AREA_KEYWORDS[i].keywords[k])
    IN  [i \in DOMAIN idx |-> BODY_AREA_KEYWORDS[idx[i]].area]

\* a tally that keeps the severity it saw last for an area, not the highest
BumpLatest(tally, area, sev) ==
    IF \E i \in DOMAIN tally : tally[i].area = area
    THEN [i \in DOMAIN tally |->
            IF tally[i].area = area
            THEN [tally[i] EXCEPT !.count = @ + 1, !.sev = sev]
            ELSE tally[i]]
    ELSE Append(tally, [area |-> area, count |-> 1, sev |-> sev])

\* areaCounts[area] = (areaCounts[area] || 0) + 1 and the running maximum of
\* areaSeverities, on an object kept in insertion order
Bump(tally, area, sev) ==
    IF \E i \in DOMAIN tally : tally[i].area = area
    THEN [i \in DOMAIN tally |->
            IF tally[i].area = area
            THEN [tally[i] EXCEPT !.count = @ + 1, !.sev = IF sev > @ THEN sev ELSE @]
            ELSE tally[i]]
    ELSE Append(tally, [area |-> area, count |-> 1, sev |-> sev])

RECURSIVE BumpAll(_, _, _)
BumpAll(tally, areas, sev) ==
    IF areas = <<>> THEN tally ELSE BumpAll(Bump(tally, Head(areas), sev), Tail(areas), sev)

\* the first pass of inferClinicalPicture over claims cl[i..]
RECURSIVE AreaTally(_, _, _, _)
AreaTally(tally, cl, db, i) ==
    IF i > Len(cl) THEN tally
    ELSE LET c == cl[i]
             known == c.cpt_code \in DOMAIN db.codes
             sev == IF known /\ db.codes[c.cpt_code].severity # 0
                    THEN db.codes[c.cpt_code].severity ELSE 1
         IN  IF known /\ db.codes[c.cpt_code].category = "E&M"
             THEN AreaTally(tally, cl, db, i + 1)
             ELSE AreaTally(BumpAll(tally, AreasOfClaim(c), sev), cl, db, i + 1)

\* Array.prototype.sort((a, b) => b[1] - a[1]): stable, by count descending
RECURSIVE InsertByCount(_, _)
InsertByCount(sorted, e) ==
    IF sorted = <<>> THEN <<e>>
    ELSE IF e.count > Head(sorted).count THEN <<e>> \o sorted
    ELSE <<Head(sorted)>> \o InsertByCount(Tail(sorted), e)

RECURSIVE SortByCount(_, _)
SortByCount(sorted, rest) ==
    IF rest = <<>> THEN sorted ELSE SortByCount(InsertByCount(sorted, Head(rest)), Tail(rest))

inferClinicalPicture(cl, db) ==
    LET fallback == MaxOf({db.codes[cl[i].cpt_code].severity : i \in
                        {j \in DOMAIN cl : /\ cl[j].cpt_code \in DOMAIN db.codes
                                           /\ db.codes[cl[j].cpt_code].category \notin {"E&M", "Supplies"}}}
                        \cup {1}, 1)
        picture(sortedAreas) ==
            [dominantAreas |-> [i \in DOMAIN sortedAreas |-> sortedAreas[i].area],
             maxSupportedSeverity |-> IF sortedAreas # <<>> THEN sortedAreas[1].sev ELSE fallback]
    IN  picture(SortByCount(<<>>, AreaTally(<<>>, cl, db, 1)))

\* the tier of the explanation text
generateExplanation(billedSeverity, noteSeverity) ==
    LET gap == billedSeverity - noteSeverity
    IN  IF noteSeverity = 0 THEN "NO SUPPORTING DOCUMENTATION"
        ELSE IF gap >= 3 THEN "CRITICAL MISMATCH"
        ELSE IF gap >= 2 THEN "SIGNIFICANT MISMATCH"
        ELSE "Minor discrepancy"

HasNotes(claim) == TrimLength(claim.recorded_clinical_notes) > 0

\* the flag condition without its second clause: a gap counts only when the
\* service has no evidence
ShouldFlagUnlessEvidence(billedSeverity, gap, hasEvidence) ==
    \/ (~hasEvidence /\ billedSeverity >= 2)
    \/ (gap >= 2 /\ ~hasEvidence)

\* the flag condition with its first clause for every billed severity
ShouldFlagAnySeverity(billedSeverity, gap, hasEvidence) ==
    \/ ~hasEvidence
    \/ gap >= 3
    \/ (gap >= 2 /\ ~hasEvidence)

\* shouldFlag: no evidence for a service of severity 2 or more, or a gap of 3
\* or more, or a gap of 2 or more without evidence
ShouldFlag(billedSeverity, gap, hasEvidence) ==
    \/ (~hasEvidence /\ billedSeverity >= 2)
    \/ gap >= 3
    \/ (gap >= 2 /\ ~hasEvidence)

\* Path A of the audit loop: notes exist
AuditWithNotes(claim, cptInfo, db) ==
    LET billedSeverity == cptInfo.severity
        shouldFlag(gap, hasEvidence) == ShouldFlag(billedSeverity, gap, hasEvidence)
        effectiveNoteSeverity(level, hasEvidence) ==
            IF hasEvidence THEN level ELSE IF level < 1 THEN level ELSE 1
        mismatch(noteAnalysis, hasEvidence, effective) ==
            [claim_id |-> claim.claim_id,
             cpt_code |-> claim.cpt_code,
             cpt_description |-> claim.cpt_description,
             billed_severity |-> billedSeverity,
             note_severity |-> effective,
             severity_gap |-> billedSeverity - effective,
             billed_amount |-> claim.billed_amount_inr,
             evidence_text |-> claim.recorded_clinical_notes,
             highlighted_keywords |->
                 IF hasEvidence THEN noteAnalysis.keywords
                 ELSE <<"No specific evidence found for this service">>,
             explanation |->
                 IF hasEvidence THEN generateExplanation(billedSeverity, noteAnalysis.level)
                 ELSE "MISSING DOCUMENTATION",
             department |-> <<claim.department>>]
        audit(noteAnalysis, hasEvidence) ==
            IF shouldFlag(billedSeverity - noteAnalysis.level, hasEvidence)
            THEN <<mismatch(noteAnalysis, hasEvidence,
                            effectiveNoteSeverity(noteAnalysis.level, hasEvidence))>>
            ELSE <<>>
    IN  audit(extractNoteSeverity(claim.recorded_clinical_notes, db.severity_keywords),
              checkServiceEvidence(claim.cpt_code, claim.cpt_description,
                                   claim.recorded_clinical_notes))

\* Path B of the audit loop: no notes, infer from the billing context; the
\* mismatch it pushes has no department field
AuditWithoutNotes(claim, cptInfo, clinicalPicture, hasAnyNotes) ==
    LET billedSeverity == cptInfo.severity
        inferredSeverity == IF clinicalPicture.maxSupportedSeverity + 1 < 5
                            THEN clinicalPicture.maxSupportedSeverity + 1 ELSE 5
        gap == billedSeverity - inferredSeverity
    IN  IF cptInfo.category # "E&M" THEN <<>>
        ELSE IF billedSeverity <= 2 THEN <<>>
        ELSE IF gap >= 2
        THEN <<[claim_id |-> claim.claim_id,
                cpt_code |-> claim.cpt_code,
                cpt_description |-> claim.cpt_description,
                billed_severity |-> billedSeverity,
                note_severity |-> inferredSeverity,
                severity_gap |-> gap,
                billed_amount |-> claim.billed_amount_inr,
                evidence_text |-> IF hasAnyNotes THEN "" ELSE "Inferred from billing context",
                highlighted_keywords |-> clinicalPicture.dominantAreas,
                explanation |-> generateExplanation(billedSeverity, inferredSeverity),
                department |-> <<>>]>>
        ELSE <<>>

RECURSIVE AuditFrom(_, _, _, _, _)
AuditFrom(cl, db, clinicalPicture, hasAnyNotes, i) ==
    IF i > Len(cl) THEN <<>>
    ELSE LET claim == cl[i]
         IN  (IF claim.cpt_code \notin DOMAIN db.codes THEN <<>>
              ELSE IF HasNotes(claim) THEN AuditWithNotes(claim, db.codes[claim.cpt_code], db)
              ELSE AuditWithoutNotes(claim, db.codes[claim.cpt_code], clinicalPicture,
                                     hasAnyNotes))
             \o AuditFrom(cl, db, clinicalPicture, hasAnyNotes, i + 1)

\* an audit whose flagged_count is the number of claims looked at
runCrossModalAuditCountingClaims(cl, db) ==
    LET riskLevel(flaggedCount) ==
            IF flaggedCount >= 3 THEN "CRITICAL"
            ELSE IF flaggedCount >= 2 THEN "HIGH"
            ELSE IF flaggedCount >= 1 THEN "MEDIUM"
            ELSE "LOW"
        report(mismatches) ==
            [mismatches |-> mismatches,
             total_claims |-> Len(cl),
             flagged_count |-> Len(cl),
             risk_level |-> riskLevel(Len(mismatches))]
    IN  report(AuditFrom(cl, db, inferClinicalPicture(cl, db),
                         \E i \in DOMAIN cl : HasNotes(cl[i]), 1))

runCrossModalAudit(cl, db) ==
    LET riskLevel(flaggedCount) ==
            IF flaggedCount >= 3 THEN "CRITICAL"
            ELSE IF flaggedCount >= 2 THEN "HIGH"
            ELSE IF flaggedCount >= 1 THEN "MEDIUM"
            ELSE "LOW"
        report(mismatches) ==
            [mismatches |-> mismatches,
             total_claims |-> Len(cl),
             flagged_count |-> Len(mismatches),
             risk_level |-> riskLevel(Len(mismatches))]
    IN  report(AuditFrom(cl, db, inferClinicalPicture(cl, db),
                         \E i \in DOMAIN cl : HasNotes(cl[i]), 1))

-----------------------------------------------------------------------------
(* Feature 3: Ghost & Unbundling Hunter *)

\* the first area of BODY_AREA_MAP whose codes hold the code or one of whose
\* keywords is in the description; "" stands for null
getBodyArea(cptCode, description) ==
    LET hit == {i \in DOMAIN BODY_AREA_MAP :
                   \/ cptCode \in BODY_AREA_MAP[i].codes
                   \/ \E k \in DOMAIN BODY_AREA_MAP[i].keywords :
                         Includes(description, BODY_AREA_MAP[i].keywords[k])}
    IN  IF hit = {} THEN ""
        ELSE BODY_AREA_MAP[CHOOSE i \in hit : \A j \in hit : i <= j].area

\* the indices of the semantic groups with a keyword in the description
getRelevantGroups(cptDescription) ==
    SelectSeq([i \in DOMAIN SEMANTIC_GROUPS |-> i],
        LAMBDA i : \E k \in DOMAIN SEMANTIC_GROUPS[i].keywords :
            Includes(cptDescription, SEMANTIC_GROUPS[i].keywords[k]))

DenialPhrase(notes) ==
    \/ Includes(notes, "no record found")
    \/ (Includes(notes, "not required") /\ StrLength(notes) < 100)
    \/ Includes(notes, "no clinical notes available")

calculateSimilarity(cptDescription, notes) ==
    LET totalKeywords(relevantGroups) ==
            SumInt([g \in DOMAIN relevantGroups |->
                       Len(SEMANTIC_GROUPS[relevantGroups[g]].keywords)])
        matchCount(relevantGroups) ==
            SumInt([g \in DOMAIN relevantGroups |->
                       Cardinality({k \in DOMAIN SEMANTIC_GROUPS[relevantGroups[g]].keywords :
                           Includes(notes, SEMANTIC_GROUPS[relevantGroups[g]].keywords[k])})])
        ratio(matches, total) == IF total > 0 THEN Q(matches, total) ELSE Q(1, 2)
        similarity(relevantGroups) ==
            IF relevantGroups = <<>> THEN Q(1, 2)
            ELSE IF DenialPhrase(notes) THEN Num(0)
            ELSE ratio(matchCount(relevantGroups), totalKeywords(relevantGroups))
    IN  similarity(getRelevantGroups(cptDescription))

CategoryOf(claim, db) ==
    IF claim.cpt_code \in DOMAIN db.codes THEN db.codes[claim.cpt_code].category ELSE "Unknown"

\* bodyAreas: per claim its code, area and category
BodyAreas(cl, db) ==
    [i \in DOMAIN cl |-> [code |-> cl[i].cpt_code,
                          area |-> getBodyArea(cl[i].cpt_code, cl[i].cpt_description),
                          category |-> CategoryOf(cl[i], db)]]

\* areaCounts, in insertion order
RECURSIVE GhostAreaCounts(_, _, _)
GhostAreaCounts(tally, bodyAreas, i) ==
    IF i > Len(bodyAreas) THEN tally
    ELSE LET ba == bodyAreas[i]
         IN  IF ba.area # "" /\ ba.category \notin GENERIC_CATEGORIES
             THEN GhostAreaCounts(Bump(tally, ba.area, 0), bodyAreas, i + 1)
             ELSE GhostAreaCounts(tally, bodyAreas, i + 1)

\* sortedAreas[0]?.[0] || null, "" standing for null
DominantArea(bodyAreas) ==
    LET first(sortedAreas) == IF sortedAreas = <<>> THEN "" ELSE sortedAreas[1].area
    IN  first(SortByCount(<<>>, GhostAreaCounts(<<>>, bodyAreas, 1)))

THRESHOLD == Q(15, 100)

\* Path A of the ghost loop: notes exist
GhostWithNotes(claim) ==
    LET ghost(score) ==
            IF Lt(score, THRESHOLD)
            THEN <<[claim_id |-> claim.claim_id,
                    cpt_code |-> claim.cpt_code,
                    cpt_description |-> claim.cpt_description,
                    billed_amount |-> claim.billed_amount_inr,
                    similarity_score |-> score,
                    explanation |-> IF score = Num(0) THEN "PHANTOM BILLING"
                                    ELSE "INSUFFICIENT EVIDENCE"]>>
            ELSE <<>>
    IN  ghost(calculateSimilarity(claim.cpt_description, claim.recorded_clinical_notes))

\* Path B without the search for a related service
GhostWithoutNotesUnrelated(claim, i, bodyAreas, dominantArea) ==
    LET thisArea == bodyAreas[i].area
    IN  IF bodyAreas[i].category \in GENERIC_CATEGORIES THEN <<>>
        ELSE IF thisArea = "" THEN <<>>
        ELSE IF dominantArea # "" /\ thisArea # dominantArea
        THEN <<[claim_id |-> claim.claim_id,
                cpt_code |-> claim.cpt_code,
                cpt_description |-> claim.cpt_description,
                billed_amount |-> claim.billed_amount_inr,
                similarity_score |-> Num(0),
                explanation |-> "PHANTOM BILLING"]>>
        ELSE <<>>

\* Path B of the ghost loop: no notes, body-area analysis
GhostWithoutNotes(claim, i, bodyAreas, dominantArea) ==
    LET thisArea == bodyAreas[i].area
        hasRelatedService == \E idx \in DOMAIN bodyAreas :
                                /\ idx # i
                                /\ bodyAreas[idx].area = thisArea
                                /\ bodyAreas[idx].category \notin GENERIC_CATEGORIES
    IN  IF bodyAreas[i].category \in GENERIC_CATEGORIES THEN <<>>
        ELSE IF thisArea = "" THEN <<>>
        ELSE IF dominantArea # "" /\ thisArea # dominantArea /\ ~hasRelatedService
        THEN <<[claim_id |-> claim.claim_id,
                cpt_code |-> claim.cpt_code,
                cpt_description |-> claim.cpt_description,
                billed_amount |-> claim.billed_amount_inr,
                similarity_score |-> Num(0),
                explanation |-> "PHANTOM BILLING"]>>
        ELSE <<>>

RECURSIVE GhostsFrom(_, _, _, _)
GhostsFrom(cl, bodyAreas, dominantArea, i) ==
    IF i > Len(cl) THEN <<>>
    ELSE (IF HasNotes(cl[i]) THEN GhostWithNotes(cl[i])
          ELSE GhostWithoutNotes(cl[i], i, bodyAreas, dominantArea))
         \o GhostsFrom(cl, bodyAreas, dominantArea, i + 1)

detectGhostServices(cl, db) ==
    LET scan(bodyAreas) == GhostsFrom(cl, bodyAreas, DominantArea(bodyAreas), 1)
    IN  scan(BodyAreas(cl, db))

\* correctCostInfo?.avg_cost_inr || totalBilled * 0.6
CorrectCost(db, code, totalBilled) ==
    IF code \in DOMAIN db.codes /\ db.codes[code].avg_cost_inr # 0
    THEN Num(db.codes[code].avg_cost_inr)
    ELSE Mul(Num(totalBilled), Q(6, 10))

\* the alert of one bundling rule, if its primary and a bundled code are billed
BundleAlert(cl, db, bundle) ==
    LET billedCodes == {cl[i].cpt_code : i \in DOMAIN cl}
        hasPrimary == bundle.primary_code \in billedCodes
        alert(involvedCodes, involvedClaims, totalBilled, correctCost) ==
            [involved_claims |-> [i \in DOMAIN involvedClaims |-> involvedClaims[i].claim_id],
             involved_codes |-> involvedCodes,
             total_billed |-> totalBilled,
             correct_code |-> bundle.correct_single_code,
             correct_cost |-> correctCost,
             potential_savings |-> Sub(Num(totalBilled), correctCost)]
        priced(involvedCodes, involvedClaims, totalBilled) ==
            alert(involvedCodes, involvedClaims, totalBilled,
                  CorrectCost(db, bundle.correct_single_code, totalBilled))
        billed(involvedCodes, involvedClaims) ==
            priced(involvedCodes, involvedClaims,
                   SumInt([i \in DOMAIN involvedClaims |-> involvedClaims[i].billed_amount_inr]))
        involved(involvedCodes) ==
            billed(involvedCodes,
                   SelectSeq(cl, LAMBDA c : c.cpt_code \in Range(involvedCodes)))
        check(presentBundled) ==
            IF hasPrimary /\ presentBundled # <<>>
            THEN <<involved(<<bundle.primary_code>> \o presentBundled)>>
            ELSE <<>>
    IN  check(SelectSeq(bundle.bundled_codes, LAMBDA c : c \in billedCodes))

RECURSIVE AlertsFrom(_, _, _)
AlertsFrom(cl, db, k) ==
    IF k > Len(db.ncci_bundles) THEN <<>>
    ELSE BundleAlert(cl, db, db.ncci_bundles[k]) \o AlertsFrom(cl, db, k + 1)

detectUnbundling(cl, db) == AlertsFrom(cl, db, 1)

\* the hunter with the ghost services left out of the savings
runGhostUnbundleHunterAlertsOnly(cl, db) ==
    LET unbundleSavings(unbundlingAlerts) ==
            SumNum([i \in DOMAIN unbundlingAlerts |-> unbundlingAlerts[i].potential_savings])
        riskLevel(flaggedCount) ==
            IF flaggedCount >= 3 THEN "CRITICAL"
            ELSE IF flaggedCount >= 2 THEN "HIGH"
            ELSE IF flaggedCount >= 1 THEN "MEDIUM"
            ELSE "LOW"
        report(ghostServices, unbundlingAlerts) ==
            [ghost_services |-> ghostServices,
             unbundling_alerts |-> unbundlingAlerts,
             total_potential_savings |-> unbundleSavings(unbundlingAlerts),
             flagged_count |-> Len(ghostServices) + Len(unbundlingAlerts),
             risk_level |-> riskLevel(Len(ghostServices) + Len(unbundlingAlerts))]
    IN  report(detectGhostServices(cl, db), detectUnbundling(cl, db))

runGhostUnbundleHunter(cl, db) ==
    LET ghostSavings(ghostServices) ==
            SumInt([i \in DOMAIN ghostServices |-> ghostServices[i].billed_amount])
        unbundleSavings(unbundlingAlerts) ==
            SumNum([i \in DOMAIN unbundlingAlerts |-> unbundlingAlerts[i].potential_savings])
        riskLevel(flaggedCount) ==
            IF flaggedCount >= 3 THEN "CRITICAL"
            ELSE IF flaggedCount >= 2 THEN "HIGH"
            ELSE IF flaggedCount >= 1 THEN "MEDIUM"
            ELSE "LOW"
        report(ghostServices, unbundlingAlerts) ==
            [ghost_services |-> ghostServices,
             unbundling_alerts |-> unbundlingAlerts,
             total_potential_savings |->
                Add(Num(ghostSavings(ghostServices)), unbundleSavings(unbundlingAlerts)),
             flagged_count |-> Len(ghostServices) + Len(unbundlingAlerts),
             risk_level |-> riskLevel(Len(ghostServices) + Len(unbundlingAlerts))]
    IN  report(detectGhostServices(cl, db), detectUnbundling(cl, db))

-----------------------------------------------------------------------------
(* Feature 4: Transparent Advisor (XAI engine) *)

TotalBilled(cl) == SumInt([i \in DOMAIN cl |-> cl[i].billed_amount_inr])

\* Factor 1: Severity Mismatch (Cross-Modal)
SeverityFactor(crossModal) ==
    IF Len(crossModal.mismatches) > 0
    THEN LET maxGap == MaxOf({crossModal.mismatches[i].severity_gap :
                                  i \in DOMAIN crossModal.mismatches}, 0)
         IN  <<[name |-> "Severity Mismatch",
                contribution |-> MathMin(Mul(Num(maxGap), Q(12, 100)), Q(35, 100)),
                direction |-> "RISK"]>>
    ELSE <<[name |-> "Severity Match", contribution |-> Q(-8, 100), direction |-> "SAFE"]>>

\* a timeline factor that counts a teleportation like any other overlap
TimelineFactorPerOverlap(timeline) ==
    IF Len(timeline.overlaps) > 0
    THEN <<[name |-> IF \E i \in DOMAIN timeline.overlaps :
                            timeline.overlaps[i].type = "TELEPORTATION"
                     THEN "Impossible Travel" ELSE "Time Overlaps",
            contribution |-> MathMin(Mul(Num(Len(timeline.overlaps)), Q(10, 100)), Q(35, 100)),
            direction |-> "RISK"]>>
    ELSE <<[name |-> "Timeline Clean", contribution |-> Q(-5, 100), direction |-> "SAFE"]>>

\* Factor 2: Timeline Anomalies
TimelineFactor(timeline) ==
    IF Len(timeline.overlaps) > 0
    THEN LET hasTeleportation == \E i \in DOMAIN timeline.overlaps :
                                     timeline.overlaps[i].type = "TELEPORTATION"
             contribution == IF hasTeleportation THEN Q(30, 100)
                             ELSE Mul(Num(Len(timeline.overlaps)), Q(10, 100))
         IN  <<[name |-> IF hasTeleportation THEN "Impossible Travel" ELSE "Time Overlaps",
                contribution |-> MathMin(contribution, Q(35, 100)),
                direction |-> "RISK"]>>
    ELSE <<[name |-> "Timeline Clean", contribution |-> Q(-5, 100), direction |-> "SAFE"]>>

\* Factor 3: Ghost Services
GhostFactor(ghostUnbundle, totalBilled) ==
    IF Len(ghostUnbundle.ghost_services) > 0
    THEN LET ghostAmount == SumInt([i \in DOMAIN ghostUnbundle.ghost_services |->
                                       ghostUnbundle.ghost_services[i].billed_amount])
         IN  <<[name |-> "Phantom Charges",
                contribution |->
                    MathMin(Add(Q(10, 100),
                                Mul(Div(Num(ghostAmount), Num(totalBilled)), Q(3, 10))),
                            Q(30, 100)),
                direction |-> "RISK"]>>
    ELSE <<>>

\* Factor 4: Unbundling
UnbundlingFactor(ghostUnbundle, totalBilled) ==
    IF Len(ghostUnbundle.unbundling_alerts) > 0
    THEN LET savings == ghostUnbundle.total_potential_savings
         IN  <<[name |-> "Code Unbundling",
                contribution |->
                    MathMin(Add(Q(8, 100), Mul(Div(savings, Num(totalBilled)), Q(2, 10))),
                            Q(25, 100)),
                direction |-> "RISK"]>>
    ELSE <<>>

\* the cost factor with every bill above the expected cost counted as excessive
CostFactorAboveExpected(cl, db, totalBilled) ==
    LET factor(costRatio) ==
            IF Gt(costRatio, Num(1))
            THEN <<[name |-> "Excessive Billing",
                    contribution |-> MathMin(Mul(Sub(costRatio, Num(1)), Q(1, 10)), Q(20, 100)),
                    direction |-> "RISK"]>>
            ELSE <<[name |-> "Cost Normal", contribution |-> Q(-5, 100), direction |-> "SAFE"]>>
        compare(avgExpected) ==
            IF avgExpected > 0 THEN factor(Div(Num(totalBilled), Num(avgExpected))) ELSE <<>>
    IN  compare(SumInt([i \in DOMAIN cl |->
                           IF cl[i].cpt_code \in DOMAIN db.codes
                           THEN db.codes[cl[i].cpt_code].avg_cost_inr ELSE 0]))

\* Factor 5: Cost Anomaly
CostFactor(cl, db, totalBilled) ==
    LET factor(costRatio) ==
            IF Gt(costRatio, Q(15, 10))
            THEN <<[name |-> "Excessive Billing",
                    contribution |-> MathMin(Mul(Sub(costRatio, Num(1)), Q(1, 10)), Q(20, 100)),
                    direction |-> "RISK"]>>
            ELSE <<[name |-> "Cost Normal", contribution |-> Q(-5, 100), direction |-> "SAFE"]>>
        compare(avgExpected) ==
            IF avgExpected > 0 THEN factor(Div(Num(totalBilled), Num(avgExpected))) ELSE <<>>
    IN  compare(SumInt([i \in DOMAIN cl |->
                           IF cl[i].cpt_code \in DOMAIN db.codes
                           THEN db.codes[cl[i].cpt_code].avg_cost_inr ELSE 0]))

\* Factor 6: Documentation Quality
DocumentationFactor(cl) ==
    LET missingDocs == Cardinality({i \in DOMAIN cl :
                           \/ Includes(cl[i].recorded_clinical_notes, "no record")
                           \/ StrLength(cl[i].recorded_clinical_notes) < 20})
    IN  IF missingDocs > 0
        THEN <<[name |-> "Poor Documentation",
                contribution |-> Mul(Num(missingDocs), Q(8, 100)),
                direction |-> "RISK"]>>
        ELSE <<[name |-> "Documentation Complete", contribution |-> Q(-5, 100),
                direction |-> "SAFE"]>>

calculateFactors(crossModal, timeline, ghostUnbundle, cl, db) ==
    LET totalBilled == TotalBilled(cl)
    IN  SeverityFactor(crossModal) \o TimelineFactor(timeline)
        \o GhostFactor(ghostUnbundle, totalBilled) \o UnbundlingFactor(ghostUnbundle, totalBilled)
        \o CostFactor(cl, db, totalBilled) \o DocumentationFactor(cl)

OfDirection(factors, direction) == SelectSeq(factors, LAMBDA f : f.direction = direction)

\* [...riskFactors].sort((a, b) => b.contribution - a.contribution): stable,
\* by contribution descending (a NaN difference counts as "equal")
RECURSIVE InsertByContribution(_, _)
InsertByContribution(sorted, f) ==
    IF sorted = <<>> THEN <<f>>
    ELSE IF Gt(f.contribution, Head(sorted).contribution) THEN <<f>> \o sorted
    ELSE <<Head(sorted)>> \o InsertByContribution(Tail(sorted), f)

RECURSIVE SortByContribution(_, _)
SortByContribution(sorted, rest) ==
    IF rest = <<>> THEN sorted
    ELSE SortByContribution(InsertByContribution(sorted, Head(rest)), Tail(rest))

\* the band of the score that picks the opening and the closing paragraph
NarrativeBand(riskScore) ==
    IF Ge(riskScore, Num(75)) THEN "high-concern"
    ELSE IF Ge(riskScore, Num(50)) THEN "elevated"
    ELSE IF Ge(riskScore, Num(25)) THEN "clarification"
    ELSE "clean"

PatientName(cl, fallback) ==
    IF Len(cl) > 0 /\ cl[1].patient_name # "" THEN cl[1].patient_name ELSE fallback

\* the deterministic template, by its parts
generateNarrative(factors, riskScore, cl, totalBilled) ==
    LET names(fs) == [i \in DOMAIN fs |-> fs[i].name]
    IN  [kind |-> "template",
         text |-> "## Audit Brief",
         patientName |-> PatientName(cl, "Unknown Patient"),
         claimCount |-> Len(cl),
         totalBilled |-> totalBilled,
         summary |-> NarrativeBand(riskScore),
         concerns |-> names(SortByContribution(<<>>, OfDirection(factors, "RISK"))),
         favour |-> names(OfDirection(factors, "SAFE")),
         recommendation |-> NarrativeBand(riskScore)]

baseScore == 10

\* the score with the SAFE contributions left out
RiskScoreRiskOnly(factors) ==
    LET riskContribution(riskFactors) ==
            SumNumFrom(Num(0), [i \in DOMAIN riskFactors |-> riskFactors[i].contribution])
        rawScore == Add(Num(baseScore),
                        Mul(riskContribution(OfDirection(factors, "RISK")), Num(100)))
    IN  MathRound(MathMax(Num(0), MathMin(Num(100), rawScore)))

RiskScore(factors) ==
    LET riskContribution(riskFactors) ==
            SumNumFrom(Num(0), [i \in DOMAIN riskFactors |-> riskFactors[i].contribution])
        safeContribution(safeFactors) ==
            SumNumFrom(Num(0), [i \in DOMAIN safeFactors |->
                                   MathAbs(safeFactors[i].contribution)])
        rawScore == Sub(Add(Num(baseScore),
                            Mul(riskContribution(OfDirection(factors, "RISK")), Num(100))),
                        Mul(safeContribution(OfDirection(factors, "SAFE")), Num(15)))
    IN  MathRound(MathMax(Num(0), MathMin(Num(100), rawScore)))

\* the if chain with the CRITICAL threshold exclusive
ClassifyAbove(riskScore) ==
    IF Gt(riskScore, Num(75)) THEN [risk_level |-> "CRITICAL", recommendation |-> "REJECT"]
    ELSE IF Ge(riskScore, Num(50)) THEN [risk_level |-> "HIGH", recommendation |-> "ESCALATE"]
    ELSE IF Ge(riskScore, Num(25)) THEN [risk_level |-> "MEDIUM", recommendation |-> "REVIEW"]
    ELSE [risk_level |-> "LOW", recommendation |-> "APPROVE"]

\* riskLevel and recommendation, set together by the if chain
Classify(riskScore) ==
    IF Ge(riskScore, Num(75)) THEN [risk_level |-> "CRITICAL", recommendation |-> "REJECT"]
    ELSE IF Ge(riskScore, Num(50)) THEN [risk_level |-> "HIGH", recommendation |-> "ESCALATE"]
    ELSE IF Ge(riskScore, Num(25)) THEN [risk_level |-> "MEDIUM", recommendation |-> "REVIEW"]
    ELSE [risk_level |-> "LOW", recommendation |-> "APPROVE"]

\* runXAIAdvisor up to its await: the locals it holds while suspended
AdvisorLocals(crossModal, timeline, ghostUnbundle, cl, db) ==
    LET totalBilled == TotalBilled(cl)
        locals(factors, riskScore, class) ==
            [totalBilled |-> totalBilled,
             factors |-> factors,
             riskScore |-> riskScore,
             riskLevel |-> class.risk_level,
             recommendation |-> class.recommendation,
             localNarrative |-> generateNarrative(factors, riskScore, cl, totalBilled),
             potentialSavings |-> ghostUnbundle.total_potential_savings]
        classified(factors, riskScore) == locals(factors, riskScore, Classify(riskScore))
        scored(factors) == classified(factors, RiskScore(factors))
    IN  scored(calculateFactors(crossModal, timeline, ghostUnbundle, cl, db))

\* the values of the narrative generator: null, or a string
Null == [kind |-> "null", text |-> ""]
Str(t) == [kind |-> "string", text |-> t]

\* llmBrief ?? localNarrative: only null gives way
OrElseNullish(llmBrief, localNarrative) ==
    IF llmBrief.kind = "string" THEN llmBrief ELSE localNarrative

\* llmBrief || localNarrative: null and the empty string are falsy
OrElse(llmBrief, localNarrative) ==
    IF llmBrief.kind = "string" /\ llmBrief.text # "" THEN llmBrief ELSE localNarrative

\* an advisor that approves whenever the generator gave no brief
XAIResultUnlessBrief(locals, llmBrief) ==
    [risk_score |-> locals.riskScore,
     risk_level |-> locals.riskLevel,
     factors |-> locals.factors,
     narrative |-> OrElse(llmBrief, locals.localNarrative),
     recommendation |-> IF llmBrief = Null THEN "APPROVE" ELSE locals.recommendation,
     financial_summary |->
        [billed_amount |-> locals.totalBilled,
         expected_amount |-> Sub(Num(locals.totalBilled), locals.potentialSavings),
         potential_savings |-> locals.potentialSavings]]

\* runXAIAdvisor from its await on: the XAIResult it returns
XAIResultOf(locals, llmBrief) ==
    [risk_score |-> locals.riskScore,
     risk_level |-> locals.riskLevel,
     factors |-> locals.factors,
     narrative |-> OrElse(llmBrief, locals.localNarrative),
     recommendation |-> locals.recommendation,
     financial_summary |->
        [billed_amount |-> locals.totalBilled,
         expected_amount |-> Sub(Num(locals.totalBilled), locals.potentialSavings),
         potential_savings |-> locals.potentialSavings]]

-----------------------------------------------------------------------------
(* The inputs of the model: one reference database and pools of claims *)

MaxClaims == 2      \* claims per batch
MaxTicks == 1       \* advances of the clock

Requests == {1, 2}  \* two requests in flight

Lexicon ==
    (5 :> <<"critical", "life threatening", "unstable">>) @@
    (4 :> <<"severe", "acute">>) @@
    (3 :> <<"moderate">>) @@
    (2 :> <<"follow-up", "minor">>) @@
    (1 :> <<"stable", "mild", "routine", "discharged">>)

CptCode(description, severity, cost, category) ==
    [description |-> description, severity |-> severity, avg_cost_inr |-> cost,
     category |-> category]

\* a reference database: codes, bundling rules (one with a replacement code the
\* database does not know) and the severity lexicon
ReferenceDb ==
    [codes |->
        ("99285" :> CptCode("Emergency department visit, high severity", 5, 5000, "E&M")) @@
        ("73600" :> CptCode("X-ray ankle, 2 views", 1, 1000, "Radiology")) @@
        ("70553" :> CptCode("MRI brain with and without contrast", 3, 8000, "Radiology")) @@
        ("23650" :> CptCode("Closed treatment of shoulder dislocation", 3, 6000, "Surgery")) @@
        ("29240" :> CptCode("Strapping of shoulder", 1, 500, "Supplies")),
     ncci_bundles |->
        <<[primary_code |-> "23650", bundled_codes |-> <<"29240">>,
           correct_single_code |-> "23650"],
          [primary_code |-> "70553", bundled_codes |-> <<"73600">>,
           correct_single_code |-> "70559"]>>,
     severity_keywords |-> Lexicon]

\* places on the meridian 77.209 E: a clinic at 0.1 N, places 4.9 km, 5.1 km and
\* 25 km north of it, and the point of the equator 11 km south of it (latitude 0)
Meridian == Q(77209, 1000)
Clinic == Some(Q(100, 1000))
Near == Some(Q(144, 1000))
Beyond == Some(Q(146, 1000))
Far == Some(Q(325, 1000))
Equator == Some(Num(0))

\* a claim as it is posted: no claim_id (the route numbers the claims)
Claim(code, description, notes, amount, date, time, department, lat) ==
    [claim_id |-> "",
     patient_name |-> "Arnav Bansal",
     date |-> date,
     time |-> time,
     department |-> department,
     cpt_code |-> code,
     cpt_description |-> description,
     billed_amount_inr |-> amount,
     recorded_clinical_notes |-> notes,
     location_lat |-> lat,
     location_lng |-> IF lat.some THEN Some(Meridian) ELSE Undefined]

EdVisit(notes, amount, date, time, department, lat) ==
    Claim("99285", "Emergency department visit, high severity", notes, amount,
          date, time, department, lat)

XRay(amount, date, time, department, lat) ==
    Claim("73600", "X-ray ankle, 2 views",
          "X-ray of the right ankle, two views, shows no fracture; routine follow-up advised.",
          amount, date, time, department, lat)

Mri(amount) ==
    Claim("70553", "MRI brain with and without contrast", "No record found for this service.",
          amount, "2024-03-01", "14:00", "PrimeCare Clinic", Clinic)

ClaimPool ==
    { EdVisit("Patient stable, mild discomfort, discharged", 5000,
              "2024-03-01", "10:00", "PrimeCare Clinic", Clinic),
      EdVisit("Emergency: patient unstable, critical condition, resuscitation started in the emergency department.",
              5000, "2024-03-01", "10:00", "PrimeCare Clinic", Clinic),
      XRay(1000, "2024-03-01", "10:20", "PrimeCare Clinic", Clinic),
      XRay(1000, "2024-03-01", "10:20", "Elite Rehab", Far),
      XRay(1000, "", "10:20", "PrimeCare Clinic", Undefined),
      XRay(4000, "n/a", "", "PrimeCare Clinic", Undefined),
      Mri(0),
      Mri(8000),
      Claim("23650", "Closed treatment of shoulder dislocation", "", 6000,
            "2024-03-01", "16:00", "PrimeCare Clinic", Clinic),
      Claim("29240", "Strapping of shoulder", "", 500,
            "2024-03-01", "18:30", "PrimeCare Clinic", Clinic),
      Claim("29240", "Strapping of shoulder", "", 0,
            "2024-03-01", "18:30", "PrimeCare Clinic", Clinic),
      Claim("00000", "Unlisted procedure", "Procedure performed as documented in chart.", 300,
            "2024-03-02", "09:00", "Elite Rehab", Undefined) }

\* claims that differ in when and where only
TimelinePool ==
    { XRay(1000, "2024-03-01", time, place[1], place[2]) :
        time \in {"10:00", "10:20", "10:45"},
        place \in { <<"PrimeCare Clinic", Clinic>>, <<"PrimeCare Clinic", Far>>,
                    <<"Elite Rehab", Near>>, <<"Elite Rehab", Beyond>>,
                    <<"Elite Rehab", Undefined>>, <<"Elite Rehab", Equator>> } }

\* the sequences over S of length at most n
RECURSIVE SeqsUpTo(_, _)
SeqsUpTo(S, n) ==
    IF n = 0 THEN {<<>>}
    ELSE LET shorter == SeqsUpTo(S, n - 1)
         IN  shorter \cup {Append(s, x) : s \in {t \in shorter : Len(t) = n - 1}, x \in S}

-----------------------------------------------------------------------------
(* The narrative generator (Gemini) *)

\* what generateContent can come back with: a text, an empty text, a failure
GeneratorOutcomes ==
    { [ok |-> TRUE, text |-> "Executive Summary: the findings warrant a review."],
      [ok |-> TRUE, text |-> ""],
      [ok |-> FALSE, text |-> ""] }

\* getMegaLLMCompletion from its await on: the text, or null from the catch
CompletionOf(outcome) == IF outcome.ok THEN Str(outcome.text) ELSE Null

NoBrief == [state |-> "none", value |-> Null]
PendingBrief == [state |-> "pending", value |-> Null]
SettledBrief(v) == [state |-> "settled", value |-> v]

\* generateMegaLLMBrief -> getMegaLLMCompletion up to its first await: without an
\* API key it returns null at once, with one the request is in flight
StartBrief(key) == IF key THEN PendingBrief ELSE SettledBrief(Null)

-----------------------------------------------------------------------------
(* Orchestrator and route *)

NoObject == [kind |-> "none"]
PromiseRef(p) == [kind |-> "promise", id |-> p]

PendingPromise == [state |-> "pending", value |-> NoObject]
Fulfilled(v) == [state |-> "fulfilled", value |-> v]

\* the coercion of the posted claims into ClaimItems
CoerceClaims(rawClaims) ==
    [i \in DOMAIN rawClaims |->
        [rawClaims[i] EXCEPT
            !.claim_id = IF @ # "" THEN @ ELSE "CLM-" \o ToString(i),
            !.patient_name = IF @ # "" THEN @ ELSE "Unknown",
            !.time = IF @ # "" THEN @ ELSE "12:00"]]

\* the object analyzeFullClaim returns; xaiValue is what runXAIAdvisor returned
FullAnalysisResult(cl, crossModal, timeline, ghostUnbundle, xaiValue, clock) ==
    [patient_name |-> PatientName(cl, "Unknown"),
     total_claims |-> Len(cl),
     total_billed |-> TotalBilled(cl),
     cross_modal |-> crossModal,
     timeline |-> timeline,
     ghost_unbundle |-> ghostUnbundle,
     xai |-> xaiValue,
     analysis_timestamp |-> toISOString(clock),
     claims |-> cl]

\* JSON.stringify of the xai field: a Promise has no enumerable properties
JsonOfXai(v) == IF v.kind = "promise" THEN [kind |-> "object"] ELSE v

NoResponse == [status |-> 0, body |-> NoObject]

Init ==
    /\ cptDb = ReferenceDb
    /\ apiKey \in BOOLEAN
    /\ now = 615
    /\ ticks = 0
    /\ claims \in SeqsUpTo(ClaimPool, MaxClaims)
    /\ pc = [p \in Requests |-> "idle"]
    /\ advisor = [p \in Requests |-> NoObject]
    /\ brief = [p \in Requests |-> NoBrief]
    /\ xai = [p \in Requests |-> [state |-> "none", value |-> NoObject]]
    /\ result = [p \in Requests |-> NoObject]
    /\ response = [p \in Requests |-> NoResponse]

\* POST /api/analyze without claims: 400
PostInvalid(p) ==
    /\ pc[p] = "idle"
    /\ Len(claims) = 0
    /\ pc' = [pc EXCEPT ![p] = "refused"]
    /\ response' = [response EXCEPT ![p] = [status |-> 400, body |-> NoObject]]
    /\ UNCHANGED <<cptDb, apiKey, now, ticks, claims, advisor, brief, xai, result>>

\* POST /api/analyze: the claims are coerced, analyzeFullClaim runs the three
\* engines and calls runXAIAdvisor, which runs up to its await and returns its
\* promise; analyzeFullClaim returns the result holding that promise, and the
\* route's continuation serialises it
PostValid(p) ==
    /\ pc[p] = "idle"
    /\ Len(claims) > 0
    /\ LET cl == CoerceClaims(claims)
       IN  result' = [result EXCEPT ![p] =
                         FullAnalysisResult(cl,
                                            runCrossModalAudit(cl, cptDb),
                                            runTimelineDetective(cl, cptDb, now),
                                            runGhostUnbundleHunter(cl, cptDb),
                                            PromiseRef(p), now)]
    /\ advisor' = [advisor EXCEPT ![p] =
                      AdvisorLocals(result'[p].cross_modal, result'[p].timeline,
                                    result'[p].ghost_unbundle, result'[p].claims, cptDb)]
    /\ brief' = [brief EXCEPT ![p] = StartBrief(apiKey)]
    /\ xai' = [xai EXCEPT ![p] = PendingPromise]
    /\ response' = [response EXCEPT ![p] =
                       [status |-> 200, body |-> [result'[p] EXCEPT !.xai = JsonOfXai(@)]]]
    /\ pc' = [pc EXCEPT ![p] = "awaiting"]
    /\ UNCHANGED <<cptDb, apiKey, now, ticks, claims>>

\* generateContent settles: getMegaLLMCompletion returns the text, or null from
\* its catch
GeneratorReply(p) ==
    /\ brief[p].state = "pending"
    /\ \E outcome \in GeneratorOutcomes :
          brief' = [brief EXCEPT ![p] = SettledBrief(CompletionOf(outcome))]
    /\ UNCHANGED <<cptDb, apiKey, now, ticks, claims, pc, advisor, xai, result, response>>

\* an advisor that keeps its locals and its brief in one slot all requests share
AdvisorResumeShared(p) ==
    /\ pc[p] = "awaiting"
    /\ brief[p].state = "settled"
    /\ \E q \in Requests :
          /\ pc[q] \in {"awaiting", "resolved"}
          /\ brief[q].state = "settled"
          /\ xai' = [xai EXCEPT ![p] = Fulfilled(XAIResultOf(advisor[q], brief[q].value))]
    /\ pc' = [pc EXCEPT ![p] = "resolved"]
    /\ UNCHANGED <<cptDb, apiKey, now, ticks, claims, advisor, brief, result, response>>

\* runXAIAdvisor resumes after its await and returns
AdvisorResume(p) ==
    /\ pc[p] = "awaiting"
    /\ brief[p].state = "settled"
    /\ xai' = [xai EXCEPT ![p] = Fulfilled(XAIResultOf(advisor[p], brief[p].value))]
    /\ pc' = [pc EXCEPT ![p] = "resolved"]
    /\ UNCHANGED <<cptDb, apiKey, now, ticks, claims, advisor, brief, result, response>>

\* a day passes
Tick ==
    /\ ticks < MaxTicks
    /\ ticks' = ticks + 1
    /\ now' = now + 24 * 60
    /\ UNCHANGED <<cptDb, apiKey, claims, pc, advisor, brief, xai, result, response>>

Next ==
    \/ \E p \in Requests : PostInvalid(p)
    \/ \E p \in Requests : PostValid(p)
    \/ \E p \in Requests : GeneratorReply(p)
    \/ \E p \in Requests : AdvisorResume(p)
    \/ Tick

Spec == Init /\ [][Next]_vars

\* the event loop runs a continuation that is ready to run; nothing obliges a
\* client to post, the generator to answer, or the clock to advance
Fairness == \A p \in Requests : WF_vars(AdvisorResume(p))

\* the batches of at most one claim
FairInit == Init /\ Len(claims) <= 1

FairSpec == FairInit /\ [][Next]_vars /\ Fairness

\* the same program on batches of claims that differ in when and where only
TimelineInit ==
    /\ cptDb = ReferenceDb
    /\ apiKey \in BOOLEAN
    /\ now = 615
    /\ ticks = 0
    /\ claims \in SeqsUpTo(TimelinePool, MaxClaims)
    /\ pc = [p \in Requests |-> "idle"]
    /\ advisor = [p \in Requests |-> NoObject]
    /\ brief = [p \in Requests |-> NoBrief]
    /\ xai = [p \in Requests |-> [state |-> "none", value |-> NoObject]]
    /\ result = [p \in Requests |-> NoObject]
    /\ response = [p \in Requests |-> NoResponse]

TimelineSpec == TimelineInit /\ [][Next]_vars

\* a reference database whose first bundling rule names a replacement code that
\* is listed at no cost
FreeReplacementDb ==
    [ReferenceDb EXCEPT
        !.codes = @ @@ ("23655" :> CptCode("Shoulder dislocation care, bundled", 3, 0, "Surgery")),
        !.ncci_bundles = <<[primary_code |-> "23650", bundled_codes |-> <<"29240">>,
                            correct_single_code |-> "23655"],
                           @[2]>>]

\* claims for the engines: visits of severity 5 with routine notes (with and
\* without the words of the description), a documented X-ray, services whose
\* notes deny them, a bundled supply, and claims with a code the database lacks
EnginePool ==
    { EdVisit("Patient stable, mild discomfort, discharged", 5000,
              "2024-03-01", "10:00", "PrimeCare Clinic", Clinic),
      EdVisit("Seen in the department; severity mild, patient stable and discharged.", 5000,
              "2024-03-01", "10:00", "PrimeCare Clinic", Clinic),
      XRay(1000, "2024-03-01", "10:20", "PrimeCare Clinic", Clinic),
      Claim("70553", "MRI brain with and without contrast", "No record found for this service.",
            8000, "2024-03-01", "10:20", "PrimeCare Clinic", Clinic),
      Claim("23650", "Closed treatment of shoulder dislocation",
            "No record found for this service.", 6000,
            "2024-03-01", "16:00", "PrimeCare Clinic", Clinic),
      Claim("29240", "Strapping of shoulder", "", 500,
            "2024-03-01", "18:30", "PrimeCare Clinic", Clinic),
      Claim("00000", "X-ray ankle, 2 views", "Procedure performed as documented in chart.", 300,
            "2024-03-02", "09:00", "Elite Rehab", Undefined),
      Claim("00000", "MRI brain with and without contrast", "", 300,
            "2024-03-02", "09:00", "Elite Rehab", Undefined) }

\* the same program on the engines' claims, with either database
EngineInit ==
    /\ cptDb \in {ReferenceDb, FreeReplacementDb}
    /\ apiKey \in BOOLEAN
    /\ now = 615
    /\ ticks = 0
    /\ claims \in SeqsUpTo(EnginePool, MaxClaims)
    /\ pc = [p \in Requests |-> "idle"]
    /\ advisor = [p \in Requests |-> NoObject]
    /\ brief = [p \in Requests |-> NoBrief]
    /\ xai = [p \in Requests |-> [state |-> "none", value |-> NoObject]]
    /\ result = [p \in Requests |-> NoObject]
    /\ response = [p \in Requests |-> NoResponse]

EngineSpec == EngineInit /\ [][Next]_vars

\* claims with clinical text for the severity engine: evidence and no
\* evidence, note levels 0, 1, 4 and 5 against billed severities 1, 3 and 5,
\* and one whose text is blanks only
AuditPool ==
    { EdVisit("Seen in the department; severity mild, patient stable and discharged.", 5000,
              "2024-03-01", "10:00", "PrimeCare Clinic", Clinic),
      EdVisit("Emergency: patient unstable, critical condition, resuscitation started in the emergency department.",
              5000, "2024-03-01", "10:00", "PrimeCare Clinic", Clinic),
      XRay(1000, "2024-03-01", "10:20", "PrimeCare Clinic", Clinic),
      Claim("73600", "X-ray ankle, 2 views",
            "Severe acute pain reported; analgesia given and observation continued.", 1000,
            "2024-03-01", "10:20", "PrimeCare Clinic", Clinic),
      Claim("70553", "MRI brain with and without contrast",
            "MRI of the brain performed; findings stable.", 8000,
            "2024-03-01", "14:00", "PrimeCare Clinic", Clinic),
      Claim("70553", "MRI brain with and without contrast", "   ", 8000,
            "2024-03-01", "14:00", "PrimeCare Clinic", Clinic),
      Mri(8000),
      Claim("23650", "Closed treatment of shoulder dislocation",
            "Severe acute pain reported; analgesia given and observation continued.", 6000,
            "2024-03-01", "16:00", "PrimeCare Clinic", Clinic) }

\* the same program on the claims with clinical text
AuditInit ==
    /\ cptDb = ReferenceDb
    /\ apiKey \in BOOLEAN
    /\ now = 615
    /\ ticks = 0
    /\ claims \in SeqsUpTo(AuditPool, MaxClaims)
    /\ pc = [p \in Requests |-> "idle"]
    /\ advisor = [p \in Requests |-> NoObject]
    /\ brief = [p \in Requests |-> NoBrief]
    /\ xai = [p \in Requests |-> [state |-> "none", value |-> NoObject]]
    /\ result = [p \in Requests |-> NoObject]
    /\ response = [p \in Requests |-> NoResponse]

AuditSpec == AuditInit /\ [][Next]_vars

MaxServices == 3    \* claims per batch of the pools of three

\* the reference database with a visit code of severity 4 added
VisitDb ==
    [ReferenceDb EXCEPT
        !.codes = @ @@ ("99284" :> CptCode("Emergency department visit, moderate severity",
                                           4, 3500, "E&M"))]

\* claims without clinical text: visits of severity 5 and 4, procedures on the
\* ankle and on the brain, and a procedure on the brain with a code the
\* database lacks
ContextPool ==
    { EdVisit("", 5000, "2024-03-01", "10:00", "PrimeCare Clinic", Clinic),
      Claim("99284", "Emergency department visit, moderate severity", "", 3500,
            "2024-03-01", "10:00", "PrimeCare Clinic", Clinic),
      Claim("73600", "X-ray ankle, 2 views", "", 1000,
            "2024-03-01", "10:20", "PrimeCare Clinic", Clinic),
      Claim("70553", "MRI brain with and without contrast", "", 8000,
            "2024-03-01", "14:00", "PrimeCare Clinic", Clinic),
      Claim("00000", "MRI brain with and without contrast", "", 300,
            "2024-03-02", "09:00", "Elite Rehab", Undefined) }

\* the same program on the claims without clinical text
ContextInit ==
    /\ cptDb = VisitDb
    /\ apiKey \in BOOLEAN
    /\ now = 615
    /\ ticks = 0
    /\ claims \in SeqsUpTo(ContextPool, MaxServices)
    /\ pc = [p \in Requests |-> "idle"]
    /\ advisor = [p \in Requests |-> NoObject]
    /\ brief = [p \in Requests |-> NoBrief]
    /\ xai = [p \in Requests |-> [state |-> "none", value |-> NoObject]]
    /\ result = [p \in Requests |-> NoObject]
    /\ response = [p \in Requests |-> NoResponse]

ContextSpec == ContextInit /\ [][Next]_vars

MaxBilled == 4      \* claims per batch of procedures billed without clinical text

\* claims without clinical text for the ghost engine: procedures on the ankle
\* and on the brain, a supply for the shoulder and a procedure of no body area
GhostAreaPool ==
    { Claim("73600", "X-ray ankle, 2 views", "", 1000,
            "2024-03-01", "10:20", "PrimeCare Clinic", Clinic),
      Claim("70553", "MRI brain with and without contrast", "", 8000,
            "2024-03-01", "14:00", "PrimeCare Clinic", Clinic),
      Claim("29240", "Strapping of shoulder", "", 500,
            "2024-03-01", "18:30", "PrimeCare Clinic", Clinic),
      Claim("00000", "Unlisted procedure", "", 300,
            "2024-03-02", "09:00", "Elite Rehab", Undefined) }

\* the same program on the procedures without clinical text
GhostAreaInit ==
    /\ cptDb = ReferenceDb
    /\ apiKey \in BOOLEAN
    /\ now = 615
    /\ ticks = 0
    /\ claims \in SeqsUpTo(GhostAreaPool, MaxBilled)
    /\ pc = [p \in Requests |-> "idle"]
    /\ advisor = [p \in Requests |-> NoObject]
    /\ brief = [p \in Requests |-> NoBrief]
    /\ xai = [p \in Requests |-> [state |-> "none", value |-> NoObject]]
    /\ result = [p \in Requests |-> NoObject]
    /\ response = [p \in Requests |-> NoResponse]

GhostAreaSpec == GhostAreaInit /\ [][Next]_vars

\* X-rays of 45 minutes that start at 10:00, 10:20 and 10:45, at the clinic,
\* 4.9 km and 25 km away from it, and at a place without coordinates
OrderPool ==
    { XRay(1000, "2024-03-01", "10:00", "PrimeCare Clinic", Clinic),
      XRay(1000, "2024-03-01", "10:20", "Elite Rehab", Far),
      XRay(1000, "2024-03-01", "10:20", "Elite Rehab", Near),
      XRay(1000, "2024-03-01", "10:45", "PrimeCare Clinic", Clinic),
      XRay(1000, "2024-03-01", "10:00", "Elite Rehab", Undefined) }

\* the same program on batches of up to three of these services
OrderInit ==
    /\ cptDb = ReferenceDb
    /\ apiKey \in BOOLEAN
    /\ now = 615
    /\ ticks = 0
    /\ claims \in SeqsUpTo(OrderPool, MaxServices)
    /\ pc = [p \in Requests |-> "idle"]
    /\ advisor = [p \in Requests |-> NoObject]
    /\ brief = [p \in Requests |-> NoBrief]
    /\ xai = [p \in Requests |-> [state |-> "none", value |-> NoObject]]
    /\ result = [p \in Requests |-> NoObject]
    /\ response = [p \in Requests |-> NoResponse]

OrderSpec == OrderInit /\ [][Next]_vars

\* a shoulder treatment and its strapping, billed at the reference cost and
\* far below it, and a documented X-ray
BundlePool ==
    { Claim("23650", "Closed treatment of shoulder dislocation", "", 6000,
            "2024-03-01", "16:00", "PrimeCare Clinic", Clinic),
      Claim("23650", "Closed treatment of shoulder dislocation", "", 600,
            "2024-03-01", "16:00", "PrimeCare Clinic", Clinic),
      Claim("29240", "Strapping of shoulder", "", 500,
            "2024-03-01", "18:30", "PrimeCare Clinic", Clinic),
      Claim("29240", "Strapping of shoulder", "", 50,
            "2024-03-01", "18:30", "PrimeCare Clinic", Clinic),
      XRay(1000, "2024-03-01", "10:20", "PrimeCare Clinic", Clinic) }

\* the same program on the bundled services
BundleInit ==
    /\ cptDb = ReferenceDb
    /\ apiKey \in BOOLEAN
    /\ now = 615
    /\ ticks = 0
    /\ claims \in SeqsUpTo(BundlePool, MaxClaims)
    /\ pc = [p \in Requests |-> "idle"]
    /\ advisor = [p \in Requests |-> NoObject]
    /\ brief = [p \in Requests |-> NoBrief]
    /\ xai = [p \in Requests |-> [state |-> "none", value |-> NoObject]]
    /\ result = [p \in Requests |-> NoObject]
    /\ response = [p \in Requests |-> NoResponse]

BundleSpec == BundleInit /\ [][Next]_vars

MaxVisits == 4      \* claims per batch of simultaneous services

\* X-rays billed for the same minute, at the clinic or 25 km away from it
SimultaneousPool ==
    { XRay(1000, "2024-03-01", "10:00", "PrimeCare Clinic", Clinic),
      XRay(1000, "2024-03-01", "10:00", "Elite Rehab", Far) }

\* the same program on batches of simultaneous services
SimultaneousInit ==
    /\ cptDb = ReferenceDb
    /\ apiKey \in BOOLEAN
    /\ now = 615
    /\ ticks = 0
    /\ claims \in SeqsUpTo(SimultaneousPool, MaxVisits)
    /\ pc = [p \in Requests |-> "idle"]
    /\ advisor = [p \in Requests |-> NoObject]
    /\ brief = [p \in Requests |-> NoBrief]
    /\ xai = [p \in Requests |-> [state |-> "none", value |-> NoObject]]
    /\ result = [p \in Requests |-> NoObject]
    /\ response = [p \in Requests |-> NoResponse]

SimultaneousSpec == SimultaneousInit /\ [][Next]_vars

-----------------------------------------------------------------------------
(* Properties *)

\* the advisor of request p has returned
Returned(p) == xai[p].state = "fulfilled"

\* x is an integer from 0 to 100
IsScore(x) == x.k = "fin" /\ x.d = 1 /\ x.n \in 0..100

\* C1: the risk_score runXAIAdvisor produces is an integer in 0..100, for every
\* batch, batches whose billed amounts are all 0 included
C1_ScoreInRange ==
    \A p \in Requests : Returned(p) => IsScore(xai[p].value.risk_score)

\* C2: risk_level and recommendation are a function of risk_score alone:
\* >= 75 CRITICAL/REJECT, 50..74 HIGH/ESCALATE, 25..49 MEDIUM/REVIEW,
\* below 25 LOW/APPROVE, and equal scores never carry different pairs
C2_LevelFollowsScore ==
    /\ \A p \in Requests :
          Returned(p) =>
             LET v == xai[p].value
                 pair == <<v.risk_level, v.recommendation>>
             IN  /\ Ge(v.risk_score, Num(75)) => pair = <<"CRITICAL", "REJECT">>
                 /\ (Ge(v.risk_score, Num(50)) /\ Lt(v.risk_score, Num(75)))
                       => pair = <<"HIGH", "ESCALATE">>
                 /\ (Ge(v.risk_score, Num(25)) /\ Lt(v.risk_score, Num(50)))
                       => pair = <<"MEDIUM", "REVIEW">>
                 /\ Lt(v.risk_score, Num(25)) => pair = <<"LOW", "APPROVE">>
                 /\ pair \in {<<"CRITICAL", "REJECT">>, <<"HIGH", "ESCALATE">>,
                              <<"MEDIUM", "REVIEW">>, <<"LOW", "APPROVE">>}
    /\ \A p, q \in Requests :
          (Returned(p) /\ Returned(q) /\ xai[p].value.risk_score = xai[q].value.risk_score)
             => /\ xai[p].value.risk_level = xai[q].value.risk_level
                /\ xai[p].value.recommendation = xai[q].value.recommendation

\* a score on the CRITICAL threshold has been returned
C2_Witness ==
    \E p \in Requests :
        /\ Returned(p)
        /\ xai[p].value.risk_score = Num(75)
        /\ xai[p].value.risk_level = "CRITICAL"
        /\ xai[p].value.recommendation = "REJECT"

\* clamp(0, 100, round(10 + 100 x sum of RISK - 15 x sum of |SAFE|)) over factors
ClampedRoundedSum(factors) ==
    LET risk == {i \in DOMAIN factors : factors[i].direction = "RISK"}
        safe == {i \in DOMAIN factors : factors[i].direction = "SAFE"}
        contributions == [i \in DOMAIN factors |-> factors[i].contribution]
        magnitudes == [i \in DOMAIN factors |-> MathAbs(factors[i].contribution)]
        sumOver(S, f) == SumNum([i \in DOMAIN factors |-> IF i \in S THEN f[i] ELSE Num(0)])
        rounded == MathRound(Sub(Add(Num(10), Mul(Num(100), sumOver(risk, contributions))),
                                 Mul(Num(15), sumOver(safe, magnitudes))))
    IN  MathMax(Num(0), MathMin(Num(100), rounded))

\* C3: the risk score equals clamp(0, 100, round(10 + 100 x sum of RISK
\* contributions - 15 x sum of absolute SAFE contributions)) over exactly the
\* factors of the result's factors list
C3_ScoreFormula ==
    \A p \in Requests :
        Returned(p) => xai[p].value.risk_score = ClampedRoundedSum(xai[p].value.factors)

\* a score from RISK and SAFE factors together, clamped at 100, has been returned
C3_Witness ==
    \E p \in Requests :
        /\ Returned(p)
        /\ xai[p].value.risk_score = Num(100)
        /\ \E i, j \in DOMAIN xai[p].value.factors :
              /\ xai[p].value.factors[i].direction = "RISK"
              /\ xai[p].value.factors[j].direction = "SAFE"

\* C4 as stated: with no value or a failure of the generator the narrative is
\* exactly the template and no error is surfaced; with any value returned, that
\* value is the narrative
C4_NarrativeAsStated ==
    \A p \in Requests :
        Returned(p) =>
           /\ response[p].status = 200
           /\ brief[p].value = Null => xai[p].value.narrative = advisor[p].localNarrative
           /\ brief[p].value.kind = "string" => xai[p].value.narrative = brief[p].value

\* C4, amended: with no value, a failure or an empty text the narrative is
\* exactly the template and no error is surfaced; with a non-empty text
\* returned, that text is the narrative
C4_NarrativeFallback ==
    \A p \in Requests :
        Returned(p) =>
           /\ response[p].status = 200
           /\ (brief[p].value = Null \/ brief[p].value = Str(""))
                 => xai[p].value.narrative = advisor[p].localNarrative
           /\ (brief[p].value.kind = "string" /\ brief[p].value.text # "")
                 => xai[p].value.narrative = brief[p].value

\* one request got a text, the other an empty text, and both advisors returned
C4_Witness ==
    \E p, q \in Requests :
        /\ Returned(p) /\ Returned(q)
        /\ brief[p].value.kind = "string" /\ brief[p].value.text # ""
        /\ xai[p].value.narrative = brief[p].value
        /\ brief[q].value = Str("")
        /\ xai[q].value.narrative = advisor[q].localNarrative

\* C5: the analysis always eventually completes with a result, also when the
\* generator never responds: an advisor waiting for the narrative returns
C5_AlwaysCompletes ==
    \A p \in Requests : (pc[p] = "awaiting") ~> Returned(p)

\* x holds the score, level, recommendation, factors and narrative computed for p
HoldsAnalysis(x, p) ==
    /\ {"risk_score", "risk_level", "recommendation", "factors", "narrative"} \subseteq DOMAIN x
    /\ x.risk_score = advisor[p].riskScore
    /\ x.risk_level = advisor[p].riskLevel
    /\ x.recommendation = advisor[p].recommendation
    /\ x.factors = advisor[p].factors
    /\ x.narrative \in {advisor[p].localNarrative} \cup {CompletionOf(o) : o \in GeneratorOutcomes}

\* C6: when analyzeFullClaim has handed its result to the route and the route
\* has serialised it, the xai part holds the computed risk_score, risk_level,
\* recommendation, factors and narrative
C6_XaiDelivered ==
    \A p \in Requests :
        response[p].status = 200 => HoldsAnalysis(response[p].body.xai, p)

\* C7: two runs on the same batch (same database, same clock reading) that
\* differ only in the outcome of the generator call produce identical findings,
\* factors, risk_score, risk_level, recommendation and financial summary
C7_OutcomeIndependent ==
    \A p, q \in Requests :
        (/\ Returned(p) /\ Returned(q)
         /\ result[p].analysis_timestamp = result[q].analysis_timestamp)
           => /\ result[p].cross_modal = result[q].cross_modal
              /\ result[p].timeline = result[q].timeline
              /\ result[p].ghost_unbundle = result[q].ghost_unbundle
              /\ xai[p].value.factors = xai[q].value.factors
              /\ xai[p].value.risk_score = xai[q].value.risk_score
              /\ xai[p].value.risk_level = xai[q].value.risk_level
              /\ xai[p].value.recommendation = xai[q].value.recommendation
              /\ xai[p].value.financial_summary = xai[q].value.financial_summary

\* two runs at one clock reading, one given a text and one a failure, with
\* risk factors found and different narratives
C7_Witness ==
    \E p, q \in Requests :
        /\ Returned(p) /\ Returned(q)
        /\ result[p].analysis_timestamp = result[q].analysis_timestamp
        /\ brief[p].value.kind = "string" /\ brief[p].value.text # ""
        /\ brief[q].value = Null
        /\ xai[p].value.narrative # xai[q].value.narrative
        /\ xai[p].value.risk_level = "CRITICAL"

\* C8: with the generator disabled, two calls on identical claims and the same
\* database yield identical findings and score at whatever times they are made,
\* claims with a missing or unparseable date or time included
C8_Idempotent ==
    ~apiKey =>
        \A p, q \in Requests :
            (Returned(p) /\ Returned(q))
               => /\ result[p].cross_modal.mismatches = result[q].cross_modal.mismatches
                  /\ result[p].timeline.events = result[q].timeline.events
                  /\ result[p].timeline.overlaps = result[q].timeline.overlaps
                  /\ result[p].ghost_unbundle.ghost_services
                        = result[q].ghost_unbundle.ghost_services
                  /\ result[p].ghost_unbundle.unbundling_alerts
                        = result[q].ghost_unbundle.unbundling_alerts
                  /\ xai[p].value.risk_score = xai[q].value.risk_score

\* request p has been analysed: result[p] is a FullAnalysisResult
Analysed(p) == pc[p] \in {"awaiting", "resolved"}

\* the intervals of events e1 and e2 overlap by more than zero minutes
Overlapping(e1, e2) ==
    LET laterStart == IF FromISOString(e1.start_time) > FromISOString(e2.start_time)
                      THEN FromISOString(e1.start_time) ELSE FromISOString(e2.start_time)
        earlierEnd == IF FromISOString(e1.end_time) < FromISOString(e2.end_time)
                      THEN FromISOString(e1.end_time) ELSE FromISOString(e2.end_time)
    IN  earlierEnd > laterStart

\* the claim carries a latitude and a longitude
HasCoordinates(c) == c.location_lat.some /\ c.location_lng.some

\* the distance in km between the coordinates of two claims that carry them
KmApart(c1, c2) ==
    haversineDistance(c1.location_lat.v, c1.location_lng.v, c2.location_lat.v, c2.location_lng.v)

\* distance / hours elapsed between the two start times, infinite when none elapsed
SpeedBetween(c1, c2, e1, e2) ==
    IF FromISOString(e1.start_time) = FromISOString(e2.start_time) THEN PInf
    ELSE Div(KmApart(c1, c2),
             Q(AbsInt(FromISOString(e2.start_time) - FromISOString(e1.start_time)), 60))

\* the overlaps the timeline of request p emitted for its claims i and j
EmittedFor(p, i, j) ==
    {o \in Range(result[p].timeline.overlaps) :
        /\ o.event_a = result[p].timeline.events[i]
        /\ o.event_b = result[p].timeline.events[j]}

\* C9: every pair of claims whose intervals overlap by more than zero minutes
\* and whose coordinates are more than 5 km apart is emitted with type
\* TELEPORTATION and required speed = distance / hours between the two starts,
\* infinite when no time elapsed; stated for pairs in different departments,
\* a shared department being the case of C10
C9_FarPairsTeleport ==
    \A p \in Requests :
        Analysed(p) =>
           \A i, j \in DOMAIN result[p].claims :
              LET c1 == result[p].claims[i]
                  c2 == result[p].claims[j]
                  e1 == result[p].timeline.events[i]
                  e2 == result[p].timeline.events[j]
              IN  (/\ i < j
                   /\ Overlapping(e1, e2)
                   /\ c1.department # c2.department
                   /\ HasCoordinates(c1) /\ HasCoordinates(c2)
                   /\ Gt(KmApart(c1, c2), Num(5)))
                     => \E o \in EmittedFor(p, i, j) :
                           /\ o.type = "TELEPORTATION"
                           /\ o.required_speed_kmh = Some(SpeedBetween(c1, c2, e1, e2))

\* C10: an overlapping pair whose coordinates are at most 5 km apart, or with
\* coordinates missing on either side, or sharing a department, is never
\* classified TELEPORTATION; it is classified OVERLAP
C10_NearPairsOverlap ==
    \A p \in Requests :
        Analysed(p) =>
           \A i, j \in DOMAIN result[p].claims :
              LET c1 == result[p].claims[i]
                  c2 == result[p].claims[j]
              IN  (/\ i < j
                   /\ Overlapping(result[p].timeline.events[i], result[p].timeline.events[j])
                   /\ \/ c1.department = c2.department
                      \/ ~HasCoordinates(c1)
                      \/ ~HasCoordinates(c2)
                      \/ Le(KmApart(c1, c2), Num(5)))
                     => /\ EmittedFor(p, i, j) # {}
                        /\ \A o \in EmittedFor(p, i, j) : o.type = "OVERLAP"

\* an overlapping pair in different departments, 4.9 km apart, emitted as OVERLAP
C10_Witness ==
    \E p \in Requests :
        /\ Analysed(p)
        /\ \E i, j \in DOMAIN result[p].claims :
              /\ i < j
              /\ Overlapping(result[p].timeline.events[i], result[p].timeline.events[j])
              /\ result[p].claims[i].department # result[p].claims[j].department
              /\ HasCoordinates(result[p].claims[i]) /\ HasCoordinates(result[p].claims[j])
              /\ Gt(KmApart(result[p].claims[i], result[p].claims[j]), Num(4))
              /\ Le(KmApart(result[p].claims[i], result[p].claims[j]), Num(5))
              /\ \E o \in EmittedFor(p, i, j) : o.type = "OVERLAP"

\* the codes of a bundling rule that the batch bills: the primary and the
\* bundled codes present
PresentCodes(cl, rule) ==
    {rule.primary_code} \cup {c \in Range(rule.bundled_codes) : \E i \in DOMAIN cl : cl[i].cpt_code = c}

\* the primary code of the rule and at least one of its bundled codes are billed
RuleFires(cl, rule) ==
    /\ \E i \in DOMAIN cl : cl[i].cpt_code = rule.primary_code
    /\ \E c \in Range(rule.bundled_codes) : \E i \in DOMAIN cl : cl[i].cpt_code = c

\* the alerts of request p raised for a rule
AlertsOfRule(p, rule) ==
    {a \in Range(result[p].ghost_unbundle.unbundling_alerts) :
        /\ a.correct_code = rule.correct_single_code
        /\ a.involved_codes[1] = rule.primary_code}

\* C11: detectUnbundling emits exactly one alert for each rule whose primary code
\* and at least one bundled code are billed, and none for any other rule; the
\* alert involves every claim billing the primary or a present bundled code,
\* total_billed is the sum of their amounts, correct_cost is the reference cost
\* of the replacement code (60% of total_billed when the database does not know
\* that code) and potential_savings = total_billed - correct_cost
C11_UnbundlingAlerts ==
    \A p \in Requests :
        Analysed(p) =>
           LET cl == result[p].claims
               rules == cptDb.ncci_bundles
               firing == {r \in DOMAIN rules : RuleFires(cl, rules[r])}
           IN  /\ Len(result[p].ghost_unbundle.unbundling_alerts) = Cardinality(firing)
               /\ \A r \in DOMAIN rules :
                     IF r \in firing
                     THEN /\ Cardinality(AlertsOfRule(p, rules[r])) = 1
                          /\ \A a \in AlertsOfRule(p, rules[r]) :
                                LET involved == {i \in DOMAIN cl :
                                                    cl[i].cpt_code \in PresentCodes(cl, rules[r])}
                                    total == SumInt([i \in DOMAIN cl |->
                                                 IF i \in involved THEN cl[i].billed_amount_inr
                                                 ELSE 0])
                                    code == rules[r].correct_single_code
                                    cost == IF code \in DOMAIN cptDb.codes
                                            THEN Num(cptDb.codes[code].avg_cost_inr)
                                            ELSE Mul(Num(total), Q(6, 10))
                                IN  /\ Range(a.involved_claims) = {cl[i].claim_id : i \in involved}
                                    /\ Len(a.involved_claims) = Cardinality(involved)
                                    /\ a.total_billed = total
                                    /\ a.correct_cost = cost
                                    /\ a.potential_savings = Sub(Num(total), cost)
                     ELSE AlertsOfRule(p, rules[r]) = {}

\* the claim's procedure code is absent from the reference database
UnknownCode(c) == c.cpt_code \notin DOMAIN cptDb.codes

\* the findings of the severity engine and of the ghost engine for a claim id
MismatchesFor(p, id) ==
    {m \in Range(result[p].cross_modal.mismatches) : m.claim_id = id}

GhostsFor(p, id) ==
    {g \in Range(result[p].ghost_unbundle.ghost_services) : g.claim_id = id}

\* C12: for a claim whose code is absent from the reference database neither
\* the severity engine nor the ghost engine emits a finding, with or without
\* clinical text, and the batch is analysed without failure
C12_UnknownCodeSkipped ==
    \A p \in Requests :
        Analysed(p) =>
           /\ response[p].status = 200
           /\ \A i \in DOMAIN result[p].claims :
                 UnknownCode(result[p].claims[i])
                    => /\ MismatchesFor(p, result[p].claims[i].claim_id) = {}
                       /\ GhostsFor(p, result[p].claims[i].claim_id) = {}

\* C13: analysing an empty batch does not fail: the request is answered with a
\* result of zero claims, zero billed and no findings, with risk level LOW and
\* recommendation APPROVE
C13_EmptyBatchAnalysed ==
    \A p \in Requests :
        (Len(claims) = 0 /\ pc[p] # "idle") =>
           /\ response[p].status = 200
           /\ response[p].body.total_claims = 0
           /\ response[p].body.total_billed = 0
           /\ response[p].body.cross_modal.mismatches = <<>>
           /\ response[p].body.timeline.overlaps = <<>>
           /\ response[p].body.ghost_unbundle.ghost_services = <<>>
           /\ response[p].body.ghost_unbundle.unbundling_alerts = <<>>
           /\ advisor[p].riskLevel = "LOW"
           /\ advisor[p].recommendation = "APPROVE"

\* the notes hold a lexicon keyword of one of the levels 3 to 5
HasHighKeyword(notes) ==
    \E level \in 3..5 :
        \E k \in DOMAIN LexiconAt(cptDb.severity_keywords, level) :
            Includes(notes, LexiconAt(cptDb.severity_keywords, level)[k])

\* the notes match an evidence pattern of the code
MatchesPattern(code, notes) ==
    \E k \in DOMAIN PatternsOf(code) : Includes(notes, PatternsOf(code)[k])

\* a claim of a known code of severity 5 whose text is routine: non-empty, with
\* no keyword of levels 3 to 5 and no evidence pattern of the code
RoutineNotesAtFive(c) ==
    /\ c.cpt_code \in DOMAIN cptDb.codes
    /\ cptDb.codes[c.cpt_code].severity = 5
    /\ HasNotes(c)
    /\ ~HasHighKeyword(c.recorded_clinical_notes)
    /\ ~MatchesPattern(c.cpt_code, c.recorded_clinical_notes)

TierOfGap(gap) ==
    IF gap >= 3 THEN "CRITICAL MISMATCH"
    ELSE IF gap = 2 THEN "SIGNIFICANT MISMATCH"
    ELSE "Minor discrepancy"

\* C15: every SeverityMismatch carries the explanation of the tier of its
\* severity gap: critical when the gap is 3 or more, significant when it is 2,
\* minor otherwise; so a severity-5 code with routine notes gets the
\* CRITICAL-tier explanation
C15_TieredExplanation ==
    \A p \in Requests :
        Analysed(p) =>
           /\ \A m \in Range(result[p].cross_modal.mismatches) :
                 m.explanation = TierOfGap(m.severity_gap)
           /\ \A i \in DOMAIN result[p].claims :
                 RoutineNotesAtFive(result[p].claims[i])
                    => \E m \in MismatchesFor(p, result[p].claims[i].claim_id) :
                          m.explanation = "CRITICAL MISMATCH"

\* the factors of a batch analysed at a clock reading
FactorsOf(cl, db, clock) ==
    calculateFactors(runCrossModalAudit(cl, db), runTimelineDetective(cl, db, clock),
                     runGhostUnbundleHunter(cl, db), cl, db)

\* the batch with its i-th service billed 25 km away, in another department
Relocated(cl, i) ==
    [cl EXCEPT ![i].department = "Elite Rehab", ![i].location_lat = Far]

HasTeleportation(timeline) ==
    \E k \in DOMAIN timeline.overlaps : timeline.overlaps[k].type = "TELEPORTATION"

\* the factors other than the one of the timeline
NotOfTimeline(factors) ==
    SelectSeq(factors, LAMBDA f : f.name \notin {"Timeline Clean", "Time Overlaps",
                                                 "Impossible Travel"})

\* C16: the risk score does not decrease when an independent RISK finding is
\* added and the other factors stay as they are: a batch whose overlaps hold no
\* teleportation, and the same batch with one service relocated so that the
\* same number of overlaps holds teleportations, every other factor being
\* equal, score no lower with the teleportation than without it
C16_ScoreMonotone ==
    \A p \in Requests :
        Analysed(p) =>
           \A i \in DOMAIN result[p].claims :
              LET timed == runTimelineDetective(Relocated(result[p].claims, i), cptDb, now)
                  extra == FactorsOf(Relocated(result[p].claims, i), cptDb, now)
              IN  (/\ result[p].timeline.overlaps # <<>>
                   /\ ~HasTeleportation(result[p].timeline)
                   /\ HasTeleportation(timed)
                   /\ Len(timed.overlaps) = Len(result[p].timeline.overlaps)
                   /\ NotOfTimeline(extra) = NotOfTimeline(advisor[p].factors))
                     => Ge(RiskScore(extra), advisor[p].riskScore)

\* the clinical text of the claim is there, is not near-empty and denies nothing
WellDocumented(c) ==
    /\ HasNotes(c)
    /\ StrLength(c.recorded_clinical_notes) >= 20
    /\ ~Includes(c.recorded_clinical_notes, "no record")

\* no engine emitted a finding for request p
NoFindings(p) ==
    /\ result[p].cross_modal.mismatches = <<>>
    /\ result[p].timeline.overlaps = <<>>
    /\ result[p].ghost_unbundle.ghost_services = <<>>
    /\ result[p].ghost_unbundle.unbundling_alerts = <<>>

\* the sum of the reference costs of the batch's known codes
ExpectedCost(cl) ==
    SumInt([i \in DOMAIN cl |-> IF cl[i].cpt_code \in DOMAIN cptDb.codes
                                 THEN cptDb.codes[cl[i].cpt_code].avg_cost_inr ELSE 0])

\* the batch is billed at more than 1.5 times its expected cost
Overbilled(cl) ==
    ExpectedCost(cl) > 0 /\ 2 * TotalBilled(cl) > 3 * ExpectedCost(cl)

\* the result of a batch without RISK: the score is round(10 - 15 x the sum of
\* the absolute SAFE credits), LOW, APPROVE, with a narrative that is not empty
ScoredOnCreditsOnly(v) ==
    /\ \A k \in DOMAIN v.factors : v.factors[k].direction = "SAFE"
    /\ v.risk_score =
          MathRound(Sub(Num(10),
                        Mul(Num(15), SumNum([k \in DOMAIN v.factors |->
                                                MathAbs(v.factors[k].contribution)]))))
    /\ v.risk_level = "LOW"
    /\ v.recommendation = "APPROVE"
    /\ (v.narrative.kind = "string" => v.narrative.text # "")
    /\ v.narrative # Null

\* C17 as stated: for a batch in which every claim has well-documented clinical
\* text and the engines emit no severity mismatch, no overlap, no ghost service
\* and no unbundling alert, the score has no RISK contribution: it is
\* round(10 - 15 x sum of the absolute SAFE credits), the level is LOW, the
\* recommendation APPROVE and the narrative is not empty
C17_CleanBatchAsStated ==
    \A p \in Requests :
        (/\ Returned(p)
         /\ \A i \in DOMAIN result[p].claims : WellDocumented(result[p].claims[i])
         /\ NoFindings(p))
           => ScoredOnCreditsOnly(xai[p].value)

\* C17, amended: the same for a batch that, besides, is not billed at more than
\* 1.5 times the expected cost of its known codes
C17_CleanBatchLowRisk ==
    \A p \in Requests :
        (/\ Returned(p)
         /\ \A i \in DOMAIN result[p].claims : WellDocumented(result[p].claims[i])
         /\ NoFindings(p)
         /\ ~Overbilled(result[p].claims))
           => ScoredOnCreditsOnly(xai[p].value)

\* a documented batch of two claims without findings, billed at 1.3 times its
\* expected cost, has been scored 7 on four SAFE credits
C17_Witness ==
    \E p \in Requests :
        /\ Returned(p)
        /\ Len(result[p].claims) = 2
        /\ \A i \in DOMAIN result[p].claims : WellDocumented(result[p].claims[i])
        /\ NoFindings(p)
        /\ TotalBilled(result[p].claims) > ExpectedCost(result[p].claims)
        /\ ~Overbilled(result[p].claims)
        /\ Len(xai[p].value.factors) = 4
        /\ xai[p].value.risk_score = Num(7)
        /\ xai[p].value.risk_level = "LOW"

\* C18: in ghost detection a claim whose non-empty clinical text holds an
\* explicit denial phrase has similarity ratio 0, whatever keywords match and
\* whether or not its description maps to a semantic group, and is flagged as
\* a ghost service with the phantom-billing explanation
C18_DenialForcesGhost ==
    \A p \in Requests :
        Analysed(p) =>
           \A i \in DOMAIN result[p].claims :
              (/\ HasNotes(result[p].claims[i])
               /\ DenialPhrase(result[p].claims[i].recorded_clinical_notes))
                 => \E g \in GhostsFor(p, result[p].claims[i].claim_id) :
                       /\ g.similarity_score = Num(0)
                       /\ g.explanation = "PHANTOM BILLING"

\* the billed amounts of the claims the ghost engine flagged, summed
GhostBilled(p) ==
    SumInt([i \in DOMAIN result[p].claims |->
               IF GhostsFor(p, result[p].claims[i].claim_id) # {}
               THEN result[p].claims[i].billed_amount_inr ELSE 0])

\* the savings of the unbundling alerts, summed
AlertSavings(p) ==
    SumNum([k \in DOMAIN result[p].ghost_unbundle.unbundling_alerts |->
               result[p].ghost_unbundle.unbundling_alerts[k].potential_savings])

\* C19: in the financial summary billed_amount is the sum of the claims' billed
\* amounts, potential_savings the sum of the ghost-flagged claims' billed
\* amounts plus the sum of the unbundling alerts' savings, and expected_amount
\* = billed_amount - potential_savings; a severity mismatch adds nothing
C19_FinancialSummary ==
    \A p \in Requests :
        Returned(p) =>
           LET f == xai[p].value.financial_summary
           IN  /\ f.billed_amount = TotalBilled(result[p].claims)
               /\ f.potential_savings = Add(Num(GhostBilled(p)), AlertSavings(p))
               /\ f.expected_amount = Sub(Num(f.billed_amount), f.potential_savings)

\* a batch with a ghost service, an unbundling alert and a severity mismatch
\* has been summarised, and its expected amount is below its billed amount
C19_Witness ==
    \E p \in Requests :
        /\ Returned(p)
        /\ GhostBilled(p) > 0
        /\ Gt(AlertSavings(p), Num(0))
        /\ result[p].cross_modal.mismatches # <<>>
        /\ Lt(xai[p].value.financial_summary.expected_amount,
              Num(xai[p].value.financial_summary.billed_amount))

\* the claim_ids of the batch the engines were given
BatchIds(p) == {result[p].claims[i].claim_id : i \in DOMAIN result[p].claims}

\* the claim_ids the findings of request p refer to
FindingIds(p) ==
    LET m == result[p].cross_modal.mismatches
        o == result[p].timeline.overlaps
        g == result[p].ghost_unbundle.ghost_services
        a == result[p].ghost_unbundle.unbundling_alerts
    IN  {m[k].claim_id : k \in DOMAIN m}
        \cup {o[k].event_a.claim_id : k \in DOMAIN o}
        \cup {o[k].event_b.claim_id : k \in DOMAIN o}
        \cup {g[k].claim_id : k \in DOMAIN g}
        \cup UNION {Range(a[k].involved_claims) : k \in DOMAIN a}

\* C20: every finding of every engine (severity mismatch, timeline overlap and
\* its two events, ghost service, the involved_claims of an unbundling alert)
\* refers only to claim_ids of the batch the engines were given
C20_FindingsReferToBatch ==
    \A p \in Requests : Returned(p) => FindingIds(p) \subseteq BatchIds(p)

\* a batch on which all four kinds of finding were emitted
C20_Witness ==
    \E p \in Requests :
        /\ Returned(p)
        /\ result[p].cross_modal.mismatches # <<>>
        /\ result[p].timeline.overlaps # <<>>
        /\ result[p].ghost_unbundle.ghost_services # <<>>
        /\ result[p].ghost_unbundle.unbundling_alerts # <<>>

\* what belongs to request p alone
RequestState(p) == <<pc[p], advisor[p], brief[p], xai[p], result[p], response[p]>>

\* what analyzeFullClaim returns for the posted batch on its own, reading the clock at t
AloneResult(p, t) ==
    LET alone(cl) ==
            FullAnalysisResult(cl, runCrossModalAudit(cl, cptDb),
                               runTimelineDetective(cl, cptDb, t),
                               runGhostUnbundleHunter(cl, cptDb), PromiseRef(p), t)
    IN  alone(CoerceClaims(claims))

\* what runXAIAdvisor returns on its own for that result and the reply v of the generator
AloneXai(r, v) ==
    XAIResultOf(AdvisorLocals(r.cross_modal, r.timeline, r.ghost_unbundle, r.claims, cptDb), v)

\* every analysis that has started holds the result of a run on its own, and
\* every one that has returned the XAIResult of a run on its own
IndependentResults ==
    \A p \in Requests :
        /\ pc[p] \in {"awaiting", "resolved"} =>
              result[p] = AloneResult(p, FromISOString(result[p].analysis_timestamp))
        /\ Returned(p) =>
              xai[p].value = AloneXai(AloneResult(p, FromISOString(result[p].analysis_timestamp)),
                                      brief[p].value)

\* a step leaves the database and the posted batch alone, and changes what
\* belongs to one request at most
IndependentStep ==
    /\ cptDb' = cptDb
    /\ claims' = claims
    /\ \A p, q \in Requests :
          (p # q /\ RequestState(p)' # RequestState(p)) => RequestState(q)' = RequestState(q)

\* C21: concurrent analyses are independent: in any interleaving of two
\* analyses, the suspension at the narrative call included, each returns the
\* result it would return when run alone, and no step of either modifies the
\* shared reference database or the input claim list
C21_Independent == []IndependentResults /\ [][IndependentStep]_vars

\* request 2 was posted a day after request 1 and has returned with a brief of
\* its own while request 1 is still suspended at its narrative call; the two
\* results differ
C21_Witness ==
    /\ pc[1] = "awaiting" /\ brief[1].state = "settled" /\ brief[1].value = Null
    /\ pc[2] = "resolved" /\ brief[2].value.kind = "string" /\ brief[2].value.text # ""
    /\ FromISOString(result[2].analysis_timestamp) > FromISOString(result[1].analysis_timestamp)
    /\ result[1].timeline # result[2].timeline

\* the note level and the evidence the severity engine reads from a claim's text
NoteLevel(c) == extractNoteSeverity(c.recorded_clinical_notes, cptDb.severity_keywords).level
Evidenced(c) == checkServiceEvidence(c.cpt_code, c.cpt_description, c.recorded_clinical_notes)
BilledSeverity(c) == cptDb.codes[c.cpt_code].severity

\* the flag condition as the claim words it
FlagAsClaimed(c) ==
    \/ (~Evidenced(c) /\ BilledSeverity(c) >= 2)
    \/ BilledSeverity(c) - NoteLevel(c) >= 3
    \/ (BilledSeverity(c) - NoteLevel(c) >= 2 /\ ~Evidenced(c))

\* claim c of request p is flagged exactly when the condition holds, and its
\* mismatch reports the matched level, capped at 1 when the service has no evidence
AuditedAsClaimed(p, c) ==
    /\ (MismatchesFor(p, c.claim_id) # {}) <=> FlagAsClaimed(c)
    /\ \A m \in MismatchesFor(p, c.claim_id) :
          m.note_severity = IF Evidenced(c) THEN NoteLevel(c)
                            ELSE IF NoteLevel(c) < 1 THEN NoteLevel(c) ELSE 1

Procedures(cl) ==
    {i \in DOMAIN cl : ~(cl[i].cpt_code \in DOMAIN cptDb.codes
                         /\ cptDb.codes[cl[i].cpt_code].category = "E&M")}

\* the procedures of batch cl that belong to body area a
ProceduresOf(cl, a) == {i \in Procedures(cl) : a \in Range(AreasOfClaim(cl[i]))}

\* the body areas with the most procedures in batch cl
MostBilledAreas(cl) ==
    LET areas == UNION {Range(AreasOfClaim(cl[i])) : i \in Procedures(cl)}
        count == [a \in areas |-> Cardinality(ProceduresOf(cl, a))]
    IN  {a \in areas : \A b \in areas : count[a] >= count[b]}

\* min(5, 1 + the maximum severity among the procedures of area a), a code the
\* database lacks counting as severity 1
Ceiling(cl, a) ==
    LET sevs == {IF cl[i].cpt_code \in DOMAIN cptDb.codes
                 THEN cptDb.codes[cl[i].cpt_code].severity ELSE 1 : i \in ProceduresOf(cl, a)}
        top == CHOOSE m \in sevs : \A x \in sevs : x <= m
    IN  IF top + 1 < 5 THEN top + 1 ELSE 5

\* C23: for a claim with empty clinical text runCrossModalAudit emits a
\* mismatch only if the code's category is E&M and its billed severity is > 2;
\* and for such a claim, in a batch with a dominant body area (an area with
\* the most procedures that are not visits), exactly when billed severity
\* exceeds by >= 2 the ceiling min(5, 1 + the maximum severity among the
\* procedures of the dominant area)
C23_InferredCeiling ==
    \A p \in Requests :
        Analysed(p) =>
           LET cl == result[p].claims
               dominant == MostBilledAreas(cl)
               ceiling == [a \in dominant |-> Ceiling(cl, a)]
               flagged(c) == MismatchesFor(p, c.claim_id) # {}
               visit(c) == /\ ~UnknownCode(c)
                           /\ cptDb.codes[c.cpt_code].category = "E&M"
                           /\ BilledSeverity(c) > 2
           IN  \A i \in DOMAIN cl :
                  cl[i].recorded_clinical_notes = "" =>
                     /\ flagged(cl[i]) => visit(cl[i])
                     /\ (visit(cl[i]) /\ dominant # {}) =>
                           /\ (\A a \in dominant : BilledSeverity(cl[i]) - ceiling[a] >= 2)
                                 => flagged(cl[i])
                           /\ flagged(cl[i])
                                 => \E a \in dominant : BilledSeverity(cl[i]) - ceiling[a] >= 2
                           /\ \A m \in MismatchesFor(p, cl[i].claim_id) :
                                  \E a \in dominant : m.note_severity = ceiling[a]

\* a visit of severity 4 without text is flagged at exactly 2 above the
\* ceiling of the batch's one dominant area
C23_Witness ==
    \E p \in Requests :
        /\ Analysed(p)
        /\ Cardinality(MostBilledAreas(result[p].claims)) = 1
        /\ \E i \in DOMAIN result[p].claims :
              /\ result[p].claims[i].recorded_clinical_notes = ""
              /\ \E m \in MismatchesFor(p, result[p].claims[i].claim_id) :
                    /\ m.billed_severity = 4 /\ m.severity_gap = 2
                    /\ \A a \in MostBilledAreas(result[p].claims) :
                          m.note_severity = Ceiling(result[p].claims, a)

\* claim c is of a category that is not area-agnostic
NonGeneric(c) == CategoryOf(c, cptDb) \notin GENERIC_CATEGORIES

\* the body area of claim c, "" when it maps to none
AreaOf(c) == getBodyArea(c.cpt_code, c.cpt_description)

\* the non-generic claims of batch cl that map to area a
ClaimsOn(cl, a) == {i \in DOMAIN cl : NonGeneric(cl[i]) /\ AreaOf(cl[i]) = a}

\* the areas with the most non-generic claims in batch cl
MostClaimedAreas(cl) ==
    LET areas == {AreaOf(cl[i]) : i \in {j \in DOMAIN cl : NonGeneric(cl[j])}} \ {""}
        count == [a \in areas |-> Cardinality(ClaimsOn(cl, a))]
    IN  {a \in areas : \A b \in areas : count[a] >= count[b]}

\* C24: a claim with no clinical text is flagged as a ghost service exactly when
\* its category is not area-agnostic, it maps to a body area, a dominant area
\* exists (an area with the most non-generic claims, one and the same for the
\* whole batch), its area differs from the dominant area and no other
\* non-generic claim of the batch maps to its area; a claim in the dominant
\* area is never flagged on this path
C24_GhostByArea ==
    \A p \in Requests :
        Analysed(p) =>
           LET cl == result[p].claims
               most == MostClaimedAreas(cl)
               area == [i \in DOMAIN cl |-> AreaOf(cl[i])]
               alone(i) == ClaimsOn(cl, area[i]) \subseteq {i}
               asClaimed(i, d) ==
                   (GhostsFor(p, cl[i].claim_id) # {})
                      <=> (NonGeneric(cl[i]) /\ area[i] # "" /\ area[i] # d /\ alone(i))
               textless == {i \in DOMAIN cl : cl[i].recorded_clinical_notes = ""}
           IN  IF most = {}
               THEN \A i \in textless : GhostsFor(p, cl[i].claim_id) = {}
               ELSE \E d \in most : \A i \in textless : asClaimed(i, d)

\* a batch of claims without clinical text with one dominant area, in which a
\* procedure on another area is flagged
C24_Witness ==
    \E p \in Requests :
        /\ Analysed(p)
        /\ \A i \in DOMAIN result[p].claims : result[p].claims[i].recorded_clinical_notes = ""
        /\ Cardinality(MostClaimedAreas(result[p].claims)) = 1
        /\ \E i \in DOMAIN result[p].claims :
              /\ GhostsFor(p, result[p].claims[i].claim_id) # {}
              /\ AreaOf(result[p].claims[i]) \notin MostClaimedAreas(result[p].claims)

\* the permutations of 1..n
Orderings(n) == {f \in [1..n -> 1..n] : \A i, j \in 1..n : f[i] = f[j] => i = j}

\* the unordered pairs a timeline report flags: the two claim ids, the minutes
\* of overlap, the type and the required speed
FlaggedPairs(timeline) ==
    {[claims |-> {o.event_a.claim_id, o.event_b.claim_id},
      overlap_minutes |-> o.overlap_minutes,
      type |-> o.type,
      required_speed_kmh |-> o.required_speed_kmh] : o \in Range(timeline.overlaps)}

\* C25: for every permutation of the batch runTimelineDetective flags the same
\* set of unordered claim pairs, each with the same overlap minutes, type and
\* required speed, and reports the same risk level
C25_OrderIndependent ==
    \A p \in Requests :
        Analysed(p) =>
           LET cl == result[p].claims
               permuted(f) ==
                   runTimelineDetective([i \in DOMAIN cl |-> cl[f[i]]], cptDb,
                                        FromISOString(result[p].analysis_timestamp))
               same(r) == /\ FlaggedPairs(r) = FlaggedPairs(result[p].timeline)
                          /\ r.flagged_count = result[p].timeline.flagged_count
                          /\ r.risk_level = result[p].timeline.risk_level
           IN  \A f \in Orderings(Len(cl)) : same(permuted(f))

\* three distinct services of which the first overlaps the third, in another
\* department and 25 km away, and the second the third, but not the first the
\* second
C25_Witness ==
    \E p \in Requests :
        /\ Analysed(p)
        /\ Len(result[p].claims) = 3
        /\ EmittedFor(p, 1, 2) = {}
        /\ \E o \in EmittedFor(p, 1, 3) : o.type = "TELEPORTATION"
        /\ \E o \in EmittedFor(p, 2, 3) : o.type = "OVERLAP"

\* the positions in the overlaps of request p that name claims i and j, in
\* either order
EmissionsOf(p, i, j) ==
    {k \in DOMAIN result[p].timeline.overlaps :
        {result[p].timeline.overlaps[k].event_a, result[p].timeline.overlaps[k].event_b}
            = {result[p].timeline.events[i], result[p].timeline.events[j]}}

\* one interval ends in the minute the other starts
Touching(e1, e2) ==
    \/ FromISOString(e1.end_time) = FromISOString(e2.start_time)
    \/ FromISOString(e2.end_time) = FromISOString(e1.start_time)

\* C26: runTimelineDetective emits an overlap for an unordered pair of distinct
\* claims if and only if their intervals overlap by more than zero minutes
\* (touching or disjoint intervals are ignored), at most one per pair and
\* none for a claim paired with itself, and flagged_count is the number of
\* overlaps emitted
C26_OverlapIffPositive ==
    \A p \in Requests :
        Analysed(p) =>
           LET t == result[p].timeline
               n == Len(result[p].claims)
           IN  /\ \A i, j \in 1..n :
                     i < j => Cardinality(EmissionsOf(p, i, j))
                                 = IF Overlapping(t.events[i], t.events[j]) THEN 1 ELSE 0
               /\ \A k \in DOMAIN t.overlaps :
                     /\ t.overlaps[k].event_a.claim_id # t.overlaps[k].event_b.claim_id
                     /\ t.overlaps[k].overlap_minutes > 0
                     /\ \E i, j \in 1..n : i < j /\ k \in EmissionsOf(p, i, j)
               /\ t.flagged_count = Len(t.overlaps)
               /\ t.flagged_count
                     = Cardinality({pair \in (1..n) \X (1..n) :
                           pair[1] < pair[2] /\ Overlapping(t.events[pair[1]], t.events[pair[2]])})

\* of three services one pair touches at 10:45 and is not emitted, the two
\* other pairs overlap and are emitted once each
C26_Witness ==
    \E p \in Requests :
        /\ Analysed(p)
        /\ Len(result[p].claims) = 3
        /\ \E i, j \in 1..3 :
              /\ i < j
              /\ Touching(result[p].timeline.events[i], result[p].timeline.events[j])
              /\ EmissionsOf(p, i, j) = {}
        /\ result[p].timeline.flagged_count = 2

\* the factors of an XAIResult that report on the timeline
TimelineFactorsOf(v) ==
    {k \in DOMAIN v.factors :
        v.factors[k].name \in {"Impossible Travel", "Time Overlaps", "Timeline Clean"}}

\* C27: every result has exactly one timeline factor: RISK 0.30 if any overlap
\* is a teleportation; otherwise, with at least one overlap, RISK
\* min(0.10 x number of overlaps, 0.35); otherwise SAFE -0.05
C27_TimelineFactor ==
    \A p \in Requests :
        Returned(p) =>
           LET v == xai[p].value
               o == result[p].timeline.overlaps
               tenths == IF Len(o) < 4 THEN Q(Len(o), 10) ELSE Q(35, 100)
           IN  /\ Cardinality(TimelineFactorsOf(v)) = 1
               /\ \A k \in TimelineFactorsOf(v) :
                     IF \E i \in DOMAIN o : o[i].type = "TELEPORTATION"
                     THEN v.factors[k].direction = "RISK" /\ v.factors[k].contribution = Q(30, 100)
                     ELSE IF Len(o) >= 1
                     THEN v.factors[k].direction = "RISK" /\ v.factors[k].contribution = tenths
                     ELSE v.factors[k].direction = "SAFE" /\ v.factors[k].contribution = Q(-5, 100)

\* six overlaps, one of them a teleportation: the factor is 0.30
C27_Witness ==
    \E p \in Requests :
        /\ Returned(p)
        /\ Len(result[p].timeline.overlaps) = 6
        /\ HasTeleportation(result[p].timeline)
        /\ \E k \in TimelineFactorsOf(xai[p].value) :
              xai[p].value.factors[k].contribution = Q(30, 100)

\* C28: in every analysis result each factor's sign matches its direction:
\* every RISK factor has a contribution > 0 and every SAFE factor one < 0,
\* bundling rules whose replacement cost exceeds the billed total included
C28_SignMatchesDirection ==
    \A p \in Requests :
        Returned(p) =>
           \A k \in DOMAIN xai[p].value.factors :
              LET f == xai[p].value.factors[k]
              IN  /\ f.direction = "RISK" => Gt(f.contribution, Num(0))
                  /\ f.direction = "SAFE" => Lt(f.contribution, Num(0))

\* C29: every mismatch runCrossModalAudit emits has severity_gap =
\* billed_severity - note_severity and severity_gap >= 1, each claim yields at
\* most one mismatch, and flagged_count is the number of mismatches
C29_MismatchShape ==
    \A p \in Requests :
        Analysed(p) =>
           LET r == result[p].cross_modal
           IN  /\ \A k \in DOMAIN r.mismatches :
                     /\ r.mismatches[k].severity_gap
                           = r.mismatches[k].billed_severity - r.mismatches[k].note_severity
                     /\ r.mismatches[k].severity_gap >= 1
                     /\ r.mismatches[k].billed_severity
                           = cptDb.codes[r.mismatches[k].cpt_code].severity
               /\ \A i \in DOMAIN result[p].claims :
                     Cardinality({k \in DOMAIN r.mismatches :
                         r.mismatches[k].claim_id = result[p].claims[i].claim_id}) <= 1
               /\ r.flagged_count = Len(r.mismatches)

\* of two claims one is flagged, without evidence, at a gap of 2 (its matched
\* level 4 is reported as 1), and the other is not flagged
C29_Witness ==
    \E p \in Requests :
        /\ Analysed(p)
        /\ result[p].cross_modal.flagged_count = 1
        /\ Len(result[p].claims) = 2
        /\ \E k \in DOMAIN result[p].cross_modal.mismatches :
              /\ result[p].cross_modal.mismatches[k].severity_gap = 2
              /\ result[p].cross_modal.mismatches[k].note_severity = 1

\* C30: for every batch with non-negative billed amounts each unbundling alert
\* has potential_savings >= 0, total_potential_savings lies between 0 and the
\* batch's total billed, and the financial summary's expected_amount lies
\* between 0 and billed_amount
C30_SavingsBounded ==
    \A p \in Requests :
        (/\ Returned(p)
         /\ \A i \in DOMAIN result[p].claims :
               result[p].claims[i].billed_amount_inr >= 0) =>
           LET g == result[p].ghost_unbundle
               f == xai[p].value.financial_summary
               billed == Num(TotalBilled(result[p].claims))
           IN  /\ \A k \in DOMAIN g.unbundling_alerts :
                     Le(Num(0), g.unbundling_alerts[k].potential_savings)
               /\ Le(Num(0), g.total_potential_savings)
               /\ Le(g.total_potential_savings, billed)
               /\ Le(Num(0), f.expected_amount)
               /\ Le(f.expected_amount, Num(f.billed_amount))

=============================================================================
